---- MODULE Spec2Model ----
(***************************************************************************)
(* Distributed acquisition and concurrency layer of lidify:                *)
(*   - DistributedLock           backend/src/utils/distributedLock.ts      *)
(*   - createDownloadJob         acquisition coordinator (spec 4.6)        *)
(*   - updateBatchStatus         discovery/optimisticBatchUpdate.ts        *)
(*   - POST /webhooks/lidarr     webhook route and processWebhookEvent     *)
(*   - MessageParser             wire codec of the peer-network client     *)
(*   - SoulseekService           search circuit breaker, failed-user list  *)
(* Each subsystem has its own next-state relation and specification over   *)
(* the shared variables; the parts a specification does not drive stay in  *)
(* their initial state.                                                    *)
(***************************************************************************)
EXTENDS Integers, Sequences, FiniteSets, TLC

(* ------------------------------ bounds --------------------------------- *)
\* concurrent createDownloadJob calls
NumCallers == 2
\* DistributedLock instances (one singleton per process)
NumInstances == 2
\* lock keys
NumKeys == 1
\* (ownerId, batchId, targetId) tuples; tuple t is locked under key t
NumTuples == 1
\* largest TTL, in clock ticks, an acquire may ask for
MaxTtl == 3

\* concurrent updateBatchStatus calls
NumUpdaters == 2
\* largest options.maxRetries a call passes
MaxRetry == 1

\* withLock calls
NumWlCalls == 2

\* longest buffer a MessageParser is given, in bytes
MaxBufLen == 8

\* searchTrack calls made by the callers of the service
NumSearches == 2

\* peers (usernames) of the failed-user list
NumPeers == 1
\* most failures recorded against one peer
MaxFailures == 3
\* clock ticks FAILED_USER_TTL (86400 s) spans
FailedUserTtlTicks == 2

\* webhook deliveries (HTTP requests)
NumRequests == 2

\* rows the cleanup looks at, download jobs and webhook events together
NumRows == 3
\* days the clock runs for
MaxDay == 3
\* days RETENTION_DAYS.downloadJobs and RETENTION_DAYS.webhookEvents (30) span
RetentionDays == 1

\* SSE connections (GET /api/events requests)
NumConns == 2
\* users
NumUsers == 2
\* events emitted on the event bus
MaxEmits == 2
\* distinct events the provider emits; a redelivery repeats one of them
NumExtEvents == 3

Callers == 1..NumCallers
Requests == 1..NumRequests
WlCalls == 1..NumWlCalls
ExtEvents == 1..NumExtEvents
Updaters == 1..NumUpdaters
Instances == 1..NumInstances
Keys == 1..NumKeys
Tuples == 1..NumTuples
Ttls == 1..MaxTtl
Searches == 1..NumSearches
Peers == 1..NumPeers
Conns == 1..NumConns
Rows == 1..NumRows
\* the odd rows are download jobs, the even rows webhook events
JobRows == {r \in Rows : r % 2 = 1}
EventRows == {r \in Rows : r % 2 = 0}
Users == 1..NumUsers

VARIABLES
  lockStore,    \* coordination store: key -> [token, ttl]; token 0 = key absent
  lockLast,     \* the last lock operation and what it returned (raised: it threw
                \* instead of returning); lapsed: the grants
                \* that ended by TTL at the tick just before it
  lockGrants,   \* key -> acquires that returned true since the key was last absent
  lockClock,    \* key -> [ttl, age]: TTL and age in ticks of the grant in force
                \* (ttl 0 = none)
  jobs,         \* relational store: sequence of download jobs, id = index
  cpc,          \* caller -> position inside createDownloadJob
  ctuple,       \* caller -> tuple of its createDownloadJob call
  cresult,      \* caller -> job id its call resolved to (0 = none)
  coutcome,     \* caller -> "none" | "ok" | "LockUnavailable" | "UniqueViolation"
  coverlap,     \* caller -> callers whose call was in flight when this one began
  cstoreErr,    \* a coordination-store call of some createDownloadJob has thrown
  batch,        \* the discoveryBatch row: [version, fields]
  upc,          \* updater -> position inside updateBatchStatus
  ubid,         \* updater -> batchId of its call
  udata,        \* updater -> fields its data sets
  umax,         \* updater -> maxRetries
  ucur,         \* updater -> currentVersion its last findUnique read
  uretries,     \* updater -> retries
  ures,         \* updater -> result: [kind, version, retries]
  uapplied,     \* updater -> conditional writes of it that matched the row
  uwrites,      \* updater -> conditional writes it issued
  usleeps,      \* updater -> retry sleeps it took
  ureads,       \* updater -> findUnique calls of it that returned the row's version
  uraced,       \* updater -> the calls that held the same read version as it did
                \* while neither had written
  events,       \* webhook event rows, id = index: [ext, processed, failureReason, correlationId]
  rpc,          \* request -> position of the route handler
  rext,         \* request -> external event its body carries
  rresp,        \* request -> HTTP status sent (0 = none yet)
  rev,          \* request -> id of the row storeEvent returned (0 = none)
  ppc,          \* request -> position of its processWebhookEvent run
  rcorr,        \* request -> correlationId its handler returned (0 = undefined)
  radv,         \* request -> id of the job its callback matched and advanced
                \* (0 = none)
  rin,          \* request -> what it arrived with: [seen, enabled, secretOk]
  rerr,         \* request -> message of the error its run caught ("" = none)
  rraised,      \* request -> its handler raised
  handlerRuns,  \* event id -> invocations of the job-state callback for it
  wpc,          \* withLock call -> position inside withLock
  wkey,         \* withLock call -> key
  wacq,         \* withLock call -> what its acquire returned
  wcb,          \* withLock call -> callback: "none" | "returned" | "threw"
  wrel,         \* withLock call -> release: "none" | "released" | "notheld" | "error"
  wout,         \* withLock call -> what the caller got:
                \* "none" | "value" | "LockUnavailable" | "CallbackError"
  wholder,      \* key -> the withLock call whose acquire made the grant in force
                \* (0 = the key is absent)
  data,         \* MessageParser.data: the buffer, a sequence of bytes
  pointer,      \* MessageParser.pointer
  mlast,        \* the last read: [op, at, size, ok, value, err]; at = pointer before
                \* it, size = the size argument of rawHexStr
  sconn,        \* peer-network connection: "disconnected" | "connecting" | "connected"
  consecutiveEmptySearches,  \* SoulseekService.consecutiveEmptySearches
  emptyRun,     \* searches that came back empty since the last one with results
  failRun,      \* searches that failed since the last one with results
  spc,          \* search -> position inside searchTrack
  sretry,       \* search -> isRetry of its current attempt
  sfirst,       \* search -> what its non-retry attempt got: "none" | "found" | "empty" | "error"
  sseen,        \* search -> the counter its non-retry attempt compared with the
                \* threshold (0 = it compared nothing)
  sdisc,        \* search -> forceDisconnect calls it made
  sdelay,       \* search -> settle delays it waited
  sout,         \* search -> what the caller got: "none" | "found" | "notfound" | "error"
  failedUsers,  \* coordination store: peer -> [count, ttl] of its
                \* soulseek:failed-user: key; count 0 = key absent
  bres,         \* peer -> what the last isUserBlocked since the key last changed
                \* returned: "none" | "true" | "false"
  berr,         \* peer -> the store call of that isUserBlocked threw
  bmark,        \* peer -> how its last markUserFailed ended:
                \* "none" | "recorded" | "swallowed" | "raised"
  bgone,        \* peer -> how a key that had reached the threshold went away:
                \* "none" | "cleared" | "lapsed"
  bfreed,       \* peer -> the ways after which isUserBlocked then read the store
                \* and returned false
  epc,          \* SSE connection -> "idle" | "rejected" | "open" | "closing" |
                \* "closed" | "dead" (closing: the socket is gone and the close
                \* handler is yet to run; dead: the socket went before the close
                \* handler was registered)
  euser,        \* SSE connection -> userId of its verified token (0 = none)
  listeners,    \* EventBus.emitter: connections whose listener is subscribed
  connections,  \* the connections map: userId -> its open responses
  heartbeat,    \* SSE connection -> its heartbeat interval is set
  ewritten,     \* SSE connection -> what was written to its response
  emitted,      \* events emitted on the bus so far
  gjobs,        \* downloadJob rows seen by the cleanup: id -> [present, status,
                \* completedAt] (completedAt -1 = null; a deleted row keeps
                \* its last fields)
  gevents,      \* webhookEvent rows seen by the cleanup: id -> [present,
                \* stored, processed, createdAt]
  gnow,         \* the current day
  gpc           \* position of the cleanup run: "idle" | "events"

lockVars == <<lockStore, lockLast, lockGrants, lockClock>>
jobVars == <<jobs, cpc, ctuple, cresult, coutcome, coverlap, cstoreErr>>
batchVars == <<batch, upc, ubid, udata, umax, ucur, uretries, ures, uapplied,
               uwrites, usleeps, ureads, uraced>>
wlVars == <<wpc, wkey, wacq, wcb, wrel, wout, wholder>>
codecVars == <<data, pointer, mlast>>
skVars == <<sconn, consecutiveEmptySearches, emptyRun, failRun, spc, sretry, sfirst, sseen,
            sdisc, sdelay, sout>>
blVars == <<failedUsers, bres, berr, bmark, bgone, bfreed>>
peerVars == <<skVars, blVars>>
sseVars == <<epc, euser, listeners, connections, heartbeat, ewritten, emitted>>
gcVars == <<gjobs, gevents, gnow, gpc>>
tailVars == <<sseVars, gcVars>>
restVars == <<wlVars, codecVars, peerVars, tailVars>>
hookVars == <<events, rpc, rext, rresp, rev, ppc, rcorr, radv, rin, rerr, rraised,
              handlerRuns>>

(* --------------------------- DistributedLock --------------------------- *)
\* the key is not in the store
Absent == [token |-> 0, ttl |-> 0]

\* constructor: lockValue = randomBytes(16), one value per instance, fixed for
\* the instance's life; 128 random bits are modelled as pairwise distinct
lockValue(i) == i

\* redis SET key value PX ttl without NX: overwrites whatever is there
RedisSetPX(s, k, v, ttl) ==
  [store |-> [s EXCEPT ![k] = [token |-> v, ttl |-> ttl]], reply |-> "OK"]

\* redis SET key value PX ttl NX
RedisSetNXPX(s, k, v, ttl) ==
  IF s[k] = Absent
    THEN [store |-> [s EXCEPT ![k] = [token |-> v, ttl |-> ttl]], reply |-> "OK"]
    ELSE [store |-> s, reply |-> "nil"]

\* the release script without its comparison: plain DEL
RedisDel(s, k, v) ==
  IF s[k] # Absent
    THEN [store |-> [s EXCEPT ![k] = Absent], reply |-> 1]
    ELSE [store |-> s, reply |-> 0]

\* the Lua script of release: if get(KEYS[1]) == ARGV[1] then del else 0
RedisEvalRelease(s, k, v) ==
  IF s[k] # Absent /\ s[k].token = v
    THEN [store |-> [s EXCEPT ![k] = Absent], reply |-> 1]
    ELSE [store |-> s, reply |-> 0]

\* a catch block that lets the store's error out
OnLockStoreErrorRethrow == [result |-> FALSE, raised |-> TRUE]

\* catch (error) { return false; } of acquire and of release
OnLockStoreError == [result |-> FALSE, raised |-> FALSE]

\* acquire that sets the key whether or not it is present (NX dropped)
AcquireOpNoNX(s, i, k, ttl, err) ==
  IF err
    THEN [store |-> s, result |-> OnLockStoreError.result,
          raised |-> OnLockStoreError.raised]
    ELSE LET r == RedisSetPX(s, k, lockValue(i), ttl)
         IN  [store |-> r.store, result |-> (r.reply = "OK"), raised |-> FALSE]

\* acquire(key, ttlMs) by instance i; err: the store call throws
AcquireOp(s, i, k, ttl, err) ==
  IF err
    THEN [store |-> s, result |-> OnLockStoreError.result,
          raised |-> OnLockStoreError.raised]
    ELSE LET r == RedisSetNXPX(s, k, lockValue(i), ttl)
         IN  [store |-> r.store, result |-> (r.reply = "OK"), raised |-> FALSE]

\* release that deletes the key without comparing the owner token
ReleaseOpNoCheck(s, i, k, err) ==
  IF err
    THEN [store |-> s, result |-> OnLockStoreError.result,
          raised |-> OnLockStoreError.raised]
    ELSE LET r == RedisDel(s, k, lockValue(i))
         IN  [store |-> r.store, result |-> (r.reply = 1), raised |-> FALSE]

\* release(key) by instance i; err: the store call throws
ReleaseOp(s, i, k, err) ==
  IF err
    THEN [store |-> s, result |-> OnLockStoreError.result,
          raised |-> OnLockStoreError.raised]
    ELSE LET r == RedisEvalRelease(s, k, lockValue(i))
         IN  [store |-> r.store, result |-> (r.reply = 1), raised |-> FALSE]

\* grants of key k after an acquire or release that returned res
GrantsAfter(op, k, res) ==
  [lockGrants EXCEPT ![k] = IF ~res THEN @ ELSE IF op = "acquire" THEN @ + 1 ELSE 0]

\* no grant of the key is in force
NoClock == [ttl |-> 0, age |-> 0]

\* the clock of key k after an acquire with PX ttl or a release that returned
\* res: a grant starts its TTL, a release by the owner ends the grant
ClockAfter(op, k, ttl, res) ==
  [lockClock EXCEPT ![k] =
     IF ~res THEN @
     ELSE IF op = "acquire" THEN [ttl |-> ttl, age |-> 0]
     ELSE NoClock]

\* the clocks one tick later: a grant whose age reaches its TTL has lapsed
ClockTick ==
  [k \in Keys |->
     IF lockClock[k].ttl = 0 \/ lockClock[k].age + 1 >= lockClock[k].ttl
       THEN NoClock
       ELSE [lockClock[k] EXCEPT !.age = @ + 1]]

\* <<key, token>> of the grants that end by TTL at the next tick
Lapsing ==
  {<<k, lockStore[k].token>> :
     k \in {j \in Keys : lockClock[j].ttl # 0 /\ lockClock[j].age + 1 >= lockClock[j].ttl}}

\* instance i's acquire(key, ttl) is called
Acquire(i, k, ttl, err) ==
  LET r == AcquireOp(lockStore, i, k, ttl, err)
  IN  /\ lockStore' = r.store
      /\ lockGrants' = GrantsAfter("acquire", k, r.result)
      /\ lockClock' = ClockAfter("acquire", k, ttl, r.result)
      /\ lockLast' = [op |-> "acquire", inst |-> i, key |-> k,
                      err |-> err, result |-> r.result, raised |-> r.raised,
                      lapsed |-> IF lockLast.op = "tick" THEN lockLast.lapsed ELSE {}]
      /\ UNCHANGED <<jobVars, batchVars, hookVars, restVars>>

\* instance i's release(key) is called
Release(i, k, err) ==
  LET r == ReleaseOp(lockStore, i, k, err)
  IN  /\ lockStore' = r.store
      /\ lockGrants' = GrantsAfter("release", k, r.result)
      /\ lockClock' = ClockAfter("release", k, 0, r.result)
      /\ lockLast' = [op |-> "release", inst |-> i, key |-> k,
                      err |-> err, result |-> r.result, raised |-> r.raised,
                      lapsed |-> {}]
      /\ UNCHANGED <<jobVars, batchVars, hookVars, restVars>>

\* a store that drops every key at the first tick, whatever its PX
ExpireStoreEarly(s) == [k \in Keys |-> Absent]

\* one clock tick of the store: every TTL runs down, a key at 0 is removed
ExpireStore(s) ==
  [k \in Keys |->
     IF s[k] = Absent \/ s[k].ttl = 1 THEN Absent
     ELSE [s[k] EXCEPT !.ttl = @ - 1]]

\* time passes in the coordination store
Expire ==
  /\ \E k \in Keys : lockStore[k] # Absent
  /\ lockStore' = ExpireStore(lockStore)
  /\ lockGrants' = [k \in Keys |-> IF lockStore'[k] = Absent THEN 0 ELSE lockGrants[k]]
  /\ lockClock' = ClockTick

Tick ==
  /\ Expire
  /\ lockLast' = [op |-> "tick", inst |-> 0, key |-> 0, err |-> FALSE, result |-> FALSE,
                  raised |-> FALSE,
                  lapsed |-> Lapsing]
  /\ UNCHANGED <<jobVars, batchVars, hookVars, restVars>>

(* ------------------------ DistributedLock.withLock ---------------------- *)
\* a withLock that runs the callback whatever acquire returned
WlAfterAcquireAlways(acquired) == "callback"

\* acquire moved inside the try block: a failed acquisition leaves through
\* finally and releases
WlAfterAcquireInTry(acquired) == IF acquired THEN "callback" ELSE "release"

\* if (!acquired) throw new Error(`Failed to acquire lock: ${key}`)
WlAfterAcquire(acquired) == IF acquired THEN "callback" ELSE "throw"

\* try { return await callback() } with the release outside a finally: a
\* callback that throws skips it
WlAfterCallbackNoFinally(threw) == IF threw THEN "done" ELSE "release"

\* try { return await callback() } finally { await this.release(key) }
WlAfterCallback(threw) == "release"

\* what the caller of withLock gets once the callback has run
WlOutcome(cb) == IF cb = "threw" THEN "CallbackError" ELSE "value"

\* the DistributedLock instance call w is made on, the singleton of its
\* process: calls 1 and 2 are made in process 1, every further call in a
\* process of its own
winst == [w \in WlCalls |-> IF w <= 2 THEN 1 ELSE w - 1]

\* withLock(key, ttlMs, callback) is called and awaits acquire; err: the store
\* call of acquire throws
WlCall(w, k, ttl, err) ==
  /\ wpc[w] = "idle"
  /\ LET r == AcquireOp(lockStore, winst[w], k, ttl, err)
         nxt == WlAfterAcquire(r.result)
     IN  /\ lockStore' = r.store
         /\ lockGrants' = GrantsAfter("acquire", k, r.result)
         /\ lockClock' = ClockAfter("acquire", k, ttl, r.result)
         /\ wacq' = [wacq EXCEPT ![w] = r.result]
         /\ wholder' = IF r.result THEN [wholder EXCEPT ![k] = w] ELSE wholder
         /\ IF nxt = "throw"
              THEN /\ wpc' = [wpc EXCEPT ![w] = "done"]
                   /\ wout' = [wout EXCEPT ![w] = "LockUnavailable"]
              ELSE /\ wpc' = [wpc EXCEPT ![w] = nxt]
                   /\ UNCHANGED wout
  /\ wkey' = [wkey EXCEPT ![w] = k]
  /\ UNCHANGED <<lockLast, jobVars, batchVars, hookVars, tailVars, codecVars, peerVars, wcb, wrel>>

\* the callback runs to its end: it returns a value or throws
WlCallback(w, threw) ==
  /\ wpc[w] = "callback"
  /\ LET cb == IF threw THEN "threw" ELSE "returned"
         nxt == WlAfterCallback(threw)
     IN  /\ wcb' = [wcb EXCEPT ![w] = cb]
         /\ wpc' = [wpc EXCEPT ![w] = nxt]
         /\ IF nxt = "done"
              THEN wout' = [wout EXCEPT ![w] = WlOutcome(cb)]
              ELSE UNCHANGED wout
  /\ UNCHANGED <<lockVars, jobVars, batchVars, hookVars, tailVars, codecVars, peerVars, wkey, wacq, wrel,
                 wholder>>

\* finally { await this.release(key) }; the result of release is dropped and
\* the callback's value or error reaches the caller; err: the store call throws
WlRelease(w, err) ==
  /\ wpc[w] = "release"
  /\ LET r == ReleaseOp(lockStore, winst[w], wkey[w], err)
     IN  /\ lockStore' = r.store
         /\ lockGrants' = GrantsAfter("release", wkey[w], r.result)
         /\ lockClock' = ClockAfter("release", wkey[w], 0, r.result)
         /\ wrel' = [wrel EXCEPT ![w] = IF err THEN "error"
                                        ELSE IF r.result THEN "released" ELSE "notheld"]
         /\ wholder' = IF r.result THEN [wholder EXCEPT ![wkey[w]] = 0] ELSE wholder
  /\ wpc' = [wpc EXCEPT ![w] = "done"]
  /\ wout' = [wout EXCEPT ![w] = WlOutcome(wcb[w])]
  /\ UNCHANGED <<lockLast, jobVars, batchVars, hookVars, tailVars, codecVars, peerVars, wkey, wacq, wcb>>

\* time passes while withLock calls are in flight
WlTick ==
  /\ Expire
  /\ wholder' = [k \in Keys |-> IF lockStore'[k] = Absent THEN 0 ELSE wholder[k]]
  /\ UNCHANGED <<lockLast, jobVars, batchVars, hookVars, tailVars, codecVars, peerVars>>
  /\ UNCHANGED <<wpc, wkey, wacq, wcb, wrel, wout>>

(* ------------------------- MessageParser (wire) ------------------------- *)
\* byte values the buffers are built from
Bytes == {0, 2}

\* buffers of at most MaxBufLen bytes
Buffers == UNION {[1..n -> Bytes] : n \in 0..MaxBufLen}

\* no value: the read threw
NoValue == [kind |-> "none"]

\* the byte at offset i (from 0) of buffer d
ByteAt(d, i) == IF i + 1 \in 1..Len(d) THEN d[i + 1] ELSE 0

\* the bytes of d from offset a up to offset b, b excluded, cut at the buffer's end
Slice(d, a, b) ==
  IF b <= a THEN <<>>
  ELSE SubSeq(d, a + 1, IF b <= Len(d) THEN b ELSE Len(d))

\* Buffer.readUInt8
ReadUInt8(d, p) == ByteAt(d, p)

\* Buffer.readUInt32LE
ReadUInt32LE(d, p) ==
  ByteAt(d, p) + 256 * ByteAt(d, p + 1) + 65536 * ByteAt(d, p + 2)
    + 16777216 * ByteAt(d, p + 3)

\* Buffer.readBigUInt64LE: lo + 2^32 * hi, kept as its two 32-bit halves
ReadBigUInt64LE(d, p) == [lo |-> ReadUInt32LE(d, p), hi |-> ReadUInt32LE(d, p + 4)]

\* the two hex digits of a byte
HexOf(b) == <<(b \div 16) % 16, b % 16>>

\* Buffer.toString('hex', a, b)
RECURSIVE ToHex(_)
ToHex(bs) == IF bs = <<>> THEN <<>> ELSE HexOf(Head(bs)) \o ToHex(Tail(bs))

\* a bounds check that lets a read run one byte past the end
UnderflowLax(p, w, len) == p + w > len + 1

\* if (this.pointer + w > this.data.length) throw new Error('Buffer underflow: ...')
Underflow(p, w, len) == p + w > len

\* an outcome of a read: the pointer it leaves, and its value or its error
Thrown(p, msg) == [ok |-> FALSE, pointer |-> p, value |-> NoValue, err |-> msg]
Returned(p, v) == [ok |-> TRUE, pointer |-> p, value |-> v, err |-> ""]

\* int8()
Int8Op(d, p) ==
  IF Underflow(p, 1, Len(d)) THEN Thrown(p, "Buffer underflow: cannot read int8")
  ELSE Returned(p + 1, [kind |-> "int", v |-> ReadUInt8(d, p)])

\* int32()
Int32Op(d, p) ==
  IF Underflow(p, 4, Len(d)) THEN Thrown(p, "Buffer underflow: cannot read int32")
  ELSE Returned(p + 4, [kind |-> "int", v |-> ReadUInt32LE(d, p)])

\* int64()
Int64Op(d, p) ==
  IF Underflow(p, 8, Len(d)) THEN Thrown(p, "Buffer underflow: cannot read int64")
  ELSE Returned(p + 8, [kind |-> "bigint", v |-> ReadBigUInt64LE(d, p)])

\* a str() that moves the pointer over prefix and payload before it checks the
\* payload
StrOpAdvanceFirst(d, p) ==
  IF Underflow(p, 4, Len(d))
    THEN Thrown(p, "Buffer underflow: cannot read string length")
    ELSE LET size == ReadUInt32LE(d, p)
         IN  IF Underflow(p + 4, size, Len(d))
               THEN Thrown(p + 4 + size, "Buffer underflow: cannot read string data")
               ELSE Returned(p + 4 + size,
                             [kind |-> "str", v |-> Slice(d, p + 4, p + 4 + size)])

\* str(): the pointer has passed the length prefix when the payload check throws
StrOp(d, p) ==
  IF Underflow(p, 4, Len(d))
    THEN Thrown(p, "Buffer underflow: cannot read string length")
    ELSE LET size == ReadUInt32LE(d, p)
         IN  IF Underflow(p + 4, size, Len(d))
               THEN Thrown(p + 4, "Buffer underflow: cannot read string data")
               ELSE Returned(p + 4 + size,
                             [kind |-> "str", v |-> Slice(d, p + 4, p + 4 + size)])

\* a rawHexStr that always moves the pointer by one byte
RawHexStrOpOneByte(d, p, size) ==
  IF Underflow(p, size, Len(d))
    THEN Thrown(p, "Buffer underflow: cannot read raw hex string")
    ELSE Returned(p + 1, [kind |-> "hex", v |-> ToHex(Slice(d, p, p + size))])

\* rawHexStr(size)
RawHexStrOp(d, p, size) ==
  IF Underflow(p, size, Len(d))
    THEN Thrown(p, "Buffer underflow: cannot read raw hex string")
    ELSE Returned(p + size, [kind |-> "hex", v |-> ToHex(Slice(d, p, p + size))])

\* the parser has been constructed
Constructed == mlast.op # "none"

\* new MessageParser(data): one parser per message
MpNew(d) ==
  /\ ~Constructed
  /\ data' = d
  /\ pointer' = 0
  /\ mlast' = [op |-> "new", at |-> 0, size |-> 0, ok |-> TRUE, value |-> NoValue, err |-> ""]
  /\ UNCHANGED <<lockVars, jobVars, batchVars, hookVars, tailVars, wlVars, peerVars>>

\* the parser after read op came out as r
AfterRead(op, size, r) ==
  /\ pointer' = r.pointer
  /\ mlast' = [op |-> op, at |-> pointer, size |-> size, ok |-> r.ok,
               value |-> r.value, err |-> r.err]
  /\ UNCHANGED <<lockVars, jobVars, batchVars, hookVars, tailVars, wlVars, peerVars, data>>

MpInt8 ==
  /\ Constructed
  /\ AfterRead("int8", 0, Int8Op(data, pointer))

MpInt32 ==
  /\ Constructed
  /\ AfterRead("int32", 0, Int32Op(data, pointer))

MpInt64 ==
  /\ Constructed
  /\ AfterRead("int64", 0, Int64Op(data, pointer))

MpStr ==
  /\ Constructed
  /\ AfterRead("str", 0, StrOp(data, pointer))

MpRawHexStr(size) ==
  /\ Constructed
  /\ AfterRead("rawHexStr", size, RawHexStrOp(data, pointer, size))

(* ------------------- createDownloadJob (spec 4.6) ---------------------- *)
\* TTL createDownloadJob asks for when it takes the tuple's lock
JobLockTtl == 1

NonTerminal(st) == st \in {"pending", "processing"}

\* ids of the non-terminal jobs of tuple t
ActiveJobs(js, t) ==
  {j \in 1..Len(js) : js[j].tuple = t /\ NonTerminal(js[j].status)}

\* a lookup that takes any job of the tuple, terminal or not
FindAnyJob(js, t) ==
  IF \E j \in 1..Len(js) : js[j].tuple = t
    THEN CHOOSE j \in 1..Len(js) : js[j].tuple = t
    ELSE 0

\* findFirst of a non-terminal job of the tuple: its id, 0 when there is none
FindActiveJob(js, t) ==
  IF ActiveJobs(js, t) = {} THEN 0
  ELSE CHOOSE j \in ActiveJobs(js, t) : \A i \in ActiveJobs(js, t) : j <= i

\* an insert that the store does not check against the tuple's active job
StoreInsertJobUnchecked(js, t) ==
  [ok |-> TRUE, jobs |-> Append(js, [tuple |-> t, status |-> "pending"])]

\* unique-constrained insert: refused while the tuple has a non-terminal job
StoreInsertJob(js, t) ==
  IF ActiveJobs(js, t) # {}
    THEN [ok |-> FALSE, jobs |-> js]
    ELSE [ok |-> TRUE, jobs |-> Append(js, [tuple |-> t, status |-> "pending"])]

InFlight(c) == cpc[c] \notin {"idle", "done"}

\* export const distributedLock = new DistributedLock(redisClient): the calls
\* of one process share its instance; callers 1 and 2 run in process 1, every
\* further caller in a process of its own
InstanceOf(c) == IF c <= 2 THEN 1 ELSE c - 1

\* createDownloadJob(target, owner) is called for tuple t
CjCall(c, t) ==
  /\ cpc[c] = "idle"
  /\ cpc' = [cpc EXCEPT ![c] = "acquire"]
  /\ ctuple' = [ctuple EXCEPT ![c] = t]
  /\ coverlap' = [coverlap EXCEPT ![c] = {d \in Callers : InFlight(d)}]
  /\ UNCHANGED <<lockVars, jobs, cresult, coutcome, cstoreErr, batchVars, hookVars, restVars>>

\* withLock: const acquired = await this.acquire(key, ttlMs);
\*           if (!acquired) throw new Error("Failed to acquire lock")
WithLockAcquire(c, err) ==
  /\ cpc[c] = "acquire"
  /\ LET r == AcquireOp(lockStore, InstanceOf(c), ctuple[c], JobLockTtl, err)
     IN  /\ lockStore' = r.store
         /\ lockGrants' = GrantsAfter("acquire", ctuple[c], r.result)
         /\ lockClock' = ClockAfter("acquire", ctuple[c], JobLockTtl, r.result)
         /\ IF r.result
              THEN /\ cpc' = [cpc EXCEPT ![c] = "find"]
                   /\ UNCHANGED coutcome
              ELSE /\ cpc' = [cpc EXCEPT ![c] = "done"]
                   /\ coutcome' = [coutcome EXCEPT ![c] = "LockUnavailable"]
  /\ cstoreErr' = (cstoreErr \/ err)
  /\ UNCHANGED <<lockLast, jobs, ctuple, cresult, coverlap, batchVars, hookVars, restVars>>

\* callback, first store call: look for a non-terminal job of the tuple;
\* when there is one the callback returns it unchanged
CjFind(c) ==
  /\ cpc[c] = "find"
  /\ LET j == FindActiveJob(jobs, ctuple[c])
     IN  IF j # 0
           THEN /\ cresult' = [cresult EXCEPT ![c] = j]
                /\ coutcome' = [coutcome EXCEPT ![c] = "ok"]
                /\ cpc' = [cpc EXCEPT ![c] = "release"]
           ELSE /\ cpc' = [cpc EXCEPT ![c] = "insert"]
                /\ UNCHANGED <<cresult, coutcome>>
  /\ UNCHANGED <<lockVars, jobs, ctuple, coverlap, cstoreErr, batchVars, hookVars, restVars>>

\* callback, second store call: insert the new job row; a refused insert
\* makes the callback throw
CjInsert(c) ==
  /\ cpc[c] = "insert"
  /\ LET r == StoreInsertJob(jobs, ctuple[c])
     IN  /\ jobs' = r.jobs
         /\ IF r.ok
              THEN /\ cresult' = [cresult EXCEPT ![c] = Len(r.jobs)]
                   /\ coutcome' = [coutcome EXCEPT ![c] = "ok"]
              ELSE /\ coutcome' = [coutcome EXCEPT ![c] = "UniqueViolation"]
                   /\ UNCHANGED cresult
  /\ cpc' = [cpc EXCEPT ![c] = "release"]
  /\ UNCHANGED <<lockVars, ctuple, coverlap, cstoreErr, batchVars, hookVars, restVars>>

\* withLock: finally { await this.release(key) }, then the callback's value
\* or error reaches the caller
WithLockRelease(c, err) ==
  /\ cpc[c] = "release"
  /\ LET r == ReleaseOp(lockStore, InstanceOf(c), ctuple[c], err)
     IN  /\ lockStore' = r.store
         /\ lockGrants' = GrantsAfter("release", ctuple[c], r.result)
         /\ lockClock' = ClockAfter("release", ctuple[c], 0, r.result)
  /\ cpc' = [cpc EXCEPT ![c] = "done"]
  /\ cstoreErr' = (cstoreErr \/ err)
  /\ UNCHANGED <<lockLast, jobs, ctuple, cresult, coutcome, coverlap, batchVars, hookVars, restVars>>

\* status a peer-network callback moves a job to
NextStatuses(st) ==
  IF st = "pending" THEN {"processing", "failed"}
  ELSE IF st = "processing" THEN {"completed", "failed"}
  ELSE {}

\* a peer-network callback (grabbed, complete, import failed) advances job j
JobCallback(j, st) ==
  /\ j \in 1..Len(jobs)
  /\ st \in NextStatuses(jobs[j].status)
  /\ jobs' = [jobs EXCEPT ![j].status = st]
  /\ UNCHANGED <<lockVars, cpc, ctuple, cresult, coutcome, coverlap, cstoreErr, batchVars, hookVars, restVars>>

\* time passes while createDownloadJob calls are in flight
JobTick ==
  /\ Expire
  /\ UNCHANGED <<lockLast, jobVars, batchVars, hookVars, restVars>>

(* ------------------- updateBatchStatus (optimistic) -------------------- *)
\* the BatchUpdateData fields the model follows
Fields == {"completedAlbums", "failedAlbums"}

\* the value call u writes into each field its data names
ValueOf(u) == u

\* version a discoveryBatch row is created with
InitVersion == 0

\* batch ids a call may name: "batch" is the stored row, "missing" has no row
BatchIds == {"batch", "missing"}

\* no result yet
NoResult == [kind |-> "none", version |-> 0, retries |-> 0]

\* const nextVersion = currentVersion + 1 without the increment
NextVersionSame(v) == v

\* const nextVersion = currentVersion + 1
NextVersion(v) == v + 1

\* an update that writes a whole row: the fields data does not name fall
\* back to their defaults
ApplyDataWholeRow(b, u, fs, v) ==
  [version |-> NextVersion(v),
   fields |-> [f \in Fields |-> IF f \in fs THEN ValueOf(u) ELSE 0]]

\* data: { ...data, version: nextVersion } applied to the row
ApplyData(b, u, fs, v) ==
  [version |-> NextVersion(v),
   fields |-> [f \in Fields |-> IF f \in fs THEN ValueOf(u) ELSE b.fields[f]]]

\* update where { id } only: the write ignores the version it read
UnconditionalUpdate(b, u, fs, v) ==
  [matched |-> TRUE, batch |-> ApplyData(b, u, fs, v)]

\* update where { id, version: nextVersion }: the write looks for the
\* version it is about to set
ConditionalUpdateOnNext(b, u, fs, v) ==
  IF b.version = NextVersion(v)
    THEN [matched |-> TRUE, batch |-> ApplyData(b, u, fs, v)]
    ELSE [matched |-> FALSE, batch |-> b]

\* discoveryBatch.update where { id, version: currentVersion }: matches the
\* row only while its version is the one read; no match raises P2025
ConditionalUpdate(b, u, fs, v) ==
  IF b.version = v
    THEN [matched |-> TRUE, batch |-> ApplyData(b, u, fs, v)]
    ELSE [matched |-> FALSE, batch |-> b]

\* updateBatchStatus(batchId, data, { maxRetries }) is called
UbCall(u, id, fs, mr) ==
  /\ upc[u] = "idle"
  /\ ubid' = [ubid EXCEPT ![u] = id]
  /\ upc' = [upc EXCEPT ![u] = "read"]
  /\ udata' = [udata EXCEPT ![u] = fs]
  /\ umax' = [umax EXCEPT ![u] = mr]
  /\ uretries' = [uretries EXCEPT ![u] = 0]
  /\ UNCHANGED <<lockVars, jobVars, hookVars, restVars, batch, ucur, ures, uapplied,
                 uwrites, usleeps, ureads, uraced>>

\* a lookup that returns the stored row whatever id is asked for
FindUniqueAny(b, id) == [found |-> TRUE, version |-> b.version]

\* discoveryBatch.findUnique({ where: { id }, select: { version } })
FindUnique(b, id) ==
  IF id = "batch" THEN [found |-> TRUE, version |-> b.version]
  ELSE [found |-> FALSE, version |-> 0]

\* a catch block that takes every error for a version conflict
IsVersionConflictAny(code) == TRUE

\* const isVersionConflict = error.code === 'P2025' || error.message?.includes(...)
IsVersionConflict(code) == code = "P2025"

\* a catch block that never gives up
GiveUpNever(r, mr) == FALSE

\* if (retries > maxRetries) return { success: false, retries, error: 'Max retries ...' }
GiveUp(r, mr) == r > mr

\* the result a call returns
Result(kind, v, r) == [kind |-> kind, version |-> v, retries |-> r]

\* a retry that reuses the version read by the attempt before
RetryFromWrite == "write"

\* where the loop goes on after a conflict: the top of the while body, which
\* reads the version again
RetryFrom == "read"

\* the calls waiting to write with version v in hand when call u reads v
RacingWith(u, v) ==
  {w \in Updaters \ {u} : upc[w] = "write" /\ ubid[w] = ubid[u] /\ ucur[w] = v}

\* catch (error): a version conflict counts a retry and either gives up or
\* sleeps retryDelayMs * Math.random() and loops; any other error is returned
UbCatch(u, code) ==
  IF IsVersionConflict(code)
    THEN /\ uretries' = [uretries EXCEPT ![u] = @ + 1]
         /\ IF GiveUp(uretries[u] + 1, umax[u])
              THEN /\ ures' = [ures EXCEPT ![u] = Result("maxretries", 0, uretries[u] + 1)]
                   /\ upc' = [upc EXCEPT ![u] = "done"]
                   /\ UNCHANGED usleeps
              ELSE /\ upc' = [upc EXCEPT ![u] = RetryFrom]
                   /\ usleeps' = [usleeps EXCEPT ![u] = @ + 1]
                   /\ UNCHANGED ures
    ELSE /\ ures' = [ures EXCEPT ![u] = Result("error", 0, uretries[u])]
         /\ upc' = [upc EXCEPT ![u] = "done"]
         /\ UNCHANGED <<uretries, usleeps>>

\* while (retries <= maxRetries): findUnique({ id }, select version);
\* err: the store call throws
UbRead(u, err) ==
  /\ upc[u] = "read"
  /\ IF ~(uretries[u] <= umax[u])
       THEN /\ ures' = [ures EXCEPT ![u] = Result("exited", 0, uretries[u])]
            /\ upc' = [upc EXCEPT ![u] = "done"]
            /\ UNCHANGED <<ucur, uretries, usleeps, ureads, uraced>>
       ELSE IF err
         THEN /\ UbCatch(u, "other")
              /\ UNCHANGED <<ucur, ureads, uraced>>
         ELSE IF ~FindUnique(batch, ubid[u]).found
           THEN /\ ures' = [ures EXCEPT ![u] = Result("notfound", 0, uretries[u])]
                /\ upc' = [upc EXCEPT ![u] = "done"]
                /\ UNCHANGED <<ucur, uretries, usleeps, ureads, uraced>>
           ELSE LET v == FindUnique(batch, ubid[u]).version
                IN  /\ ucur' = [ucur EXCEPT ![u] = v]
                    /\ ureads' = [ureads EXCEPT ![u] = @ + 1]
                    /\ uraced' = [w \in Updaters |->
                                    IF w = u THEN uraced[w] \cup RacingWith(u, v)
                                    ELSE IF w \in RacingWith(u, v) THEN uraced[w] \cup {u}
                                    ELSE uraced[w]]
                    /\ upc' = [upc EXCEPT ![u] = "write"]
                    /\ UNCHANGED <<ures, uretries, usleeps>>
  /\ UNCHANGED <<lockVars, jobVars, hookVars, restVars, batch, ubid, udata, umax,
                 uapplied, uwrites>>

\* the conditional update and what follows it: success, or the catch block;
\* err: the store call throws an error that is not P2025
UbWrite(u, err) ==
  /\ upc[u] = "write"
  /\ uwrites' = [uwrites EXCEPT ![u] = @ + 1]
  /\ IF err
       THEN /\ UbCatch(u, "other")
            /\ UNCHANGED <<batch, uapplied>>
       ELSE LET r == ConditionalUpdate(batch, u, udata[u], ucur[u])
            IN  /\ batch' = r.batch
                /\ IF r.matched
                     THEN /\ ures' = [ures EXCEPT ![u] =
                                        Result("success", r.batch.version, uretries[u])]
                          /\ upc' = [upc EXCEPT ![u] = "done"]
                          /\ uapplied' = [uapplied EXCEPT ![u] = @ + 1]
                          /\ UNCHANGED <<uretries, usleeps>>
                     ELSE /\ UbCatch(u, "P2025")
                          /\ UNCHANGED uapplied
  /\ UNCHANGED <<lockVars, jobVars, hookVars, restVars, ubid, udata, umax, ucur,
                 ureads, uraced>>

(* ------------------- POST /webhooks/lidarr (inbox) --------------------- *)
\* the provider's events: event e is a Grab carrying a downloadId, a Grab
\* without one, an ImportFailure carrying a downloadId, or a Test, in turn
EventTypeOf(e) ==
  IF e % 4 = 0 THEN "Test" ELSE IF e % 4 = 3 THEN "ImportFailure" ELSE "Grab"
DownloadIdOf(e) == IF e % 4 \in {1, 3} THEN e ELSE 0

\* id of the download job whose external reference is download id dl
JobIdOf(dl) == NumExtEvents + 1 + dl

\* what onDownloadGrabbed / onImportFailed return: whether a job was matched,
\* and its id
CallbackResult(out, dl) ==
  [matched |-> out = "matched", jobId |-> IF out = "matched" THEN JobIdOf(dl) ELSE 0]

\* a handler that returns the payload's download id
HandlerReturnDownloadId(type, dl, res) == dl

\* what the handler returns as correlation id: handleGrab result.jobId when
\* result.matched, handleImportFailure result.jobId
HandlerReturn(type, dl, res) ==
  IF type = "Grab" THEN (IF res.matched THEN res.jobId ELSE 0) ELSE res.jobId

\* secrets a request may carry in x-webhook-secret (0 = header missing)
Secrets == {0, 1, 2}

\* what getSystemSettings() may return (secret 0 = none configured)
Settings == [enabled : BOOLEAN, secret : {0, 1}]

\* id of the stored row of external event e, 0 when there is none
RowOf(evs, e) ==
  IF \E i \in 1..Len(evs) : evs[i].ext = e
    THEN CHOOSE i \in 1..Len(evs) : evs[i].ext = e
    ELSE 0

NewRow(e) == [ext |-> e, processed |-> FALSE, failureReason |-> "", correlationId |-> 0]

\* storeEvent that inserts a row for every delivery
StoreEventAlwaysInsert(evs, e) ==
  [events |-> Append(evs, NewRow(e)), id |-> Len(evs) + 1]

\* storeEvent(source, type, payload): the existing row of the identifier when
\* it was already stored, a new row otherwise
StoreEvent(evs, e) ==
  IF RowOf(evs, e) # 0
    THEN [events |-> evs, id |-> RowOf(evs, e)]
    ELSE [events |-> Append(evs, NewRow(e)), id |-> Len(evs) + 1]

\* markProcessed(eventId, correlationId)
MarkProcessed(evs, id, corr) ==
  [evs EXCEPT ![id].processed = TRUE, ![id].correlationId = corr]

\* markFailed(eventId, reason)
MarkFailed(evs, id, reason) ==
  [evs EXCEPT ![id].failureReason = reason]

\* a route that starts processing before it answers
RouteOrderProcessFirst == <<"store", "process", "respond">>

\* the route after its checks: STEP 1 store, STEP 2 respond, STEP 3 process
RouteOrder == <<"store", "respond", "process">>

\* the step that follows step st in the route
StepAfter(st) ==
  LET i == CHOOSE n \in 1..Len(RouteOrder) : RouteOrder[n] = st
  IN  IF i = Len(RouteOrder) THEN "end" ELSE RouteOrder[i + 1]

\* a processWebhookEvent without its catch block: the error is not recorded
OnHandlerErrorUncaught == "done"

\* processWebhookEvent: catch (error) { ... await markFailed(eventId, error.message) }
OnHandlerError == "markFailed"

\* a secret check that only compares a header that was sent
GateSecretOptional(sec, wsettings) ==
  IF ~wsettings.enabled THEN 202
  ELSE IF wsettings.secret # 0 /\ sec # 0 /\ sec # wsettings.secret THEN 401
  ELSE 0

\* the two checks ahead of the store: the status the route answers with, 0 when
\* the request goes on
Gate(sec, wsettings) ==
  IF ~wsettings.enabled THEN 202
  ELSE IF wsettings.secret # 0 /\ (sec = 0 \/ sec # wsettings.secret) THEN 401
  ELSE 0

\* a request arrives: getSystemSettings, the enabled check and the secret check
WhReceive(r, e, sec, wsettings, err) ==
  /\ rpc[r] = "idle"
  /\ rext' = [rext EXCEPT ![r] = e]
  /\ IF err
       THEN /\ rresp' = [rresp EXCEPT ![r] = 500]
            /\ rpc' = [rpc EXCEPT ![r] = "end"]
            /\ UNCHANGED rin
       ELSE /\ rin' = [rin EXCEPT ![r] =
                         [seen |-> TRUE, enabled |-> wsettings.enabled,
                          secretOk |-> wsettings.secret \in {0, sec}]]
            /\ IF Gate(sec, wsettings) # 0
                 THEN /\ rresp' = [rresp EXCEPT ![r] = Gate(sec, wsettings)]
                      /\ rpc' = [rpc EXCEPT ![r] = "end"]
                 ELSE /\ rpc' = [rpc EXCEPT ![r] = RouteOrder[1]]
                      /\ UNCHANGED rresp
  /\ UNCHANGED <<lockVars, jobVars, batchVars, restVars, events, rev, ppc, rcorr, radv,
                 rerr, rraised, handlerRuns>>

\* STEP 1: const storedEvent = await webhookEventStore.storeEvent(...);
\* err: the call throws and the route's catch answers 500
WhStore(r, err) ==
  /\ rpc[r] = "store"
  /\ IF err
       THEN /\ rresp' = [rresp EXCEPT ![r] = 500]
            /\ rpc' = [rpc EXCEPT ![r] = "end"]
            /\ UNCHANGED <<events, rev>>
       ELSE LET s == StoreEvent(events, rext[r])
            IN  /\ events' = s.events
                /\ rev' = [rev EXCEPT ![r] = s.id]
                /\ rpc' = [rpc EXCEPT ![r] = StepAfter("store")]
                /\ UNCHANGED rresp
  /\ UNCHANGED <<lockVars, jobVars, batchVars, restVars, rext, ppc, rcorr, radv, rin, rerr,
                 rraised, handlerRuns>>

\* STEP 2: res.json({ success: true, eventId: storedEvent.id })
WhRespond(r) ==
  /\ rpc[r] = "respond"
  /\ rresp' = [rresp EXCEPT ![r] = 200]
  /\ rpc' = [rpc EXCEPT ![r] = StepAfter("respond")]
  /\ UNCHANGED <<lockVars, jobVars, batchVars, restVars, events, rext, rev, ppc,
                 rcorr, radv, rin, rerr, rraised, handlerRuns>>

\* STEP 3: processWebhookEvent(storedEvent.id, eventType, req.body) is started
WhProcess(r) ==
  /\ rpc[r] = "process"
  /\ ppc' = [ppc EXCEPT ![r] = "handler"]
  /\ rpc' = [rpc EXCEPT ![r] = StepAfter("process")]
  /\ UNCHANGED <<lockVars, jobVars, batchVars, restVars, events, rext, rresp, rev,
                 rcorr, radv, rin, rerr, rraised, handlerRuns>>

\* the switch on eventType: handleGrab calls onDownloadGrabbed and
\* handleImportFailure calls onImportFailed when the payload has a downloadId;
\* out: the callback matched the job of dl and advanced it, matched nothing, or
\* raised
WhHandler(r, out) ==
  /\ ppc[r] = "handler"
  /\ LET type == EventTypeOf(rext[r])
         dl == DownloadIdOf(rext[r])
         calls == type \in {"Grab", "ImportFailure"} /\ dl # 0
         res == CallbackResult(out, dl)
     IN  /\ out \in (IF calls THEN {"matched", "nomatch", "raise"} ELSE {"nomatch"})
         /\ handlerRuns' = [handlerRuns EXCEPT ![rev[r]] = IF calls THEN @ + 1 ELSE @]
         /\ IF out = "raise"
              THEN /\ rerr' = [rerr EXCEPT ![r] = "handler error"]
                   /\ rraised' = [rraised EXCEPT ![r] = TRUE]
                   /\ ppc' = [ppc EXCEPT ![r] = OnHandlerError]
                   /\ UNCHANGED <<rcorr, radv>>
              ELSE /\ rcorr' = [rcorr EXCEPT ![r] =
                                  IF calls THEN HandlerReturn(type, dl, res) ELSE 0]
                   /\ radv' = [radv EXCEPT ![r] = IF calls THEN res.jobId ELSE 0]
                   /\ ppc' = [ppc EXCEPT ![r] = "mark"]
                   /\ UNCHANGED <<rerr, rraised>>
  /\ UNCHANGED <<lockVars, jobVars, batchVars, restVars, events, rpc, rext, rresp, rev,
                 rin>>

\* markProcessed awaited after the try block: its error rejects the run
OnMarkProcessedErrorOutsideTry == "rejected"

\* markProcessed is awaited inside the try block: its error is caught like a
\* handler's
OnMarkProcessedError == "markFailed"

\* await webhookEventStore.markProcessed(eventId, correlationId); err: it throws
\* and the catch block takes over
WhMarkProcessed(r, err) ==
  /\ ppc[r] = "mark"
  /\ IF err
       THEN /\ rerr' = [rerr EXCEPT ![r] = "store error"]
            /\ ppc' = [ppc EXCEPT ![r] = OnMarkProcessedError]
            /\ UNCHANGED events
       ELSE /\ events' = MarkProcessed(events, rev[r], rcorr[r])
            /\ ppc' = [ppc EXCEPT ![r] = "done"]
            /\ UNCHANGED rerr
  /\ UNCHANGED <<lockVars, jobVars, batchVars, restVars, rpc, rext, rresp, rev, rcorr, radv, rin,
                 rraised, handlerRuns>>

\* catch: await webhookEventStore.markFailed(eventId, error.message); err: it
\* throws, the run rejects and the route's .catch logs it
WhMarkFailed(r, err) ==
  /\ ppc[r] = "markFailed"
  /\ IF err
       THEN /\ ppc' = [ppc EXCEPT ![r] = "rejected"]
            /\ UNCHANGED events
       ELSE /\ events' = MarkFailed(events, rev[r], rerr[r])
            /\ ppc' = [ppc EXCEPT ![r] = "done"]
  /\ UNCHANGED <<lockVars, jobVars, batchVars, restVars, rpc, rext, rresp, rev, rcorr, radv, rin,
                 rerr, rraised, handlerRuns>>

(* --------------------------- specifications ---------------------------- *)
(* ---------------- SoulseekService: search circuit breaker --------------- *)
\* threshold of consecutive empty searches
MAX_CONSECUTIVE_EMPTY == 2

\* the breaker without the isRetry test
TripsOnRetry(isRetry, n) == n >= MAX_CONSECUTIVE_EMPTY

\* a breaker that trips one search late
TripsLate(isRetry, n) == ~isRetry /\ n > MAX_CONSECUTIVE_EMPTY

\* if (!isRetry && this.consecutiveEmptySearches >= this.MAX_CONSECUTIVE_EMPTY)
Trips(isRetry, n) == ~isRetry /\ n >= MAX_CONSECUTIVE_EMPTY

SearchResults == {"found", "empty", "error"}

\* consecutiveEmptySearches after a search: reset by results, incremented by
\* an empty search and by a failed one
CountAfter(kind, n) == IF kind = "found" THEN 0 ELSE n + 1

\* what the caller gets from an attempt that ends the call
SearchOutcome(kind) ==
  IF kind = "found" THEN "found" ELSE IF kind = "empty" THEN "notfound" ELSE "error"

\* searchTrack(artist, title, album) called from outside: isRetry = false
SkCall(s) ==
  /\ spc[s] = "idle"
  /\ spc' = [spc EXCEPT ![s] = "connect"]
  /\ UNCHANGED <<lockVars, jobVars, batchVars, hookVars, tailVars, wlVars, codecVars, blVars>>
  /\ UNCHANGED <<sconn, consecutiveEmptySearches, emptyRun, failRun, sretry, sfirst, sseen, sdisc, sdelay,
               sout>>

\* an attempt makes sure of the connection before it searches: it starts the
\* handshake when the client is disconnected and goes on once it is connected
SkEnsureConnected(s) ==
  /\ spc[s] = "connect"
  /\ sconn # "connecting"
  /\ IF sconn = "connected"
       THEN /\ spc' = [spc EXCEPT ![s] = "search"]
            /\ UNCHANGED sconn
       ELSE /\ sconn' = "connecting"
            /\ UNCHANGED spc
  /\ UNCHANGED <<lockVars, jobVars, batchVars, hookVars, tailVars, wlVars, codecVars, blVars>>
  /\ UNCHANGED <<consecutiveEmptySearches, emptyRun, failRun, sretry, sfirst, sseen, sdisc, sdelay,
               sout>>

\* the handshake completes
SkConnected ==
  /\ sconn = "connecting"
  /\ sconn' = "connected"
  /\ UNCHANGED <<lockVars, jobVars, batchVars, hookVars, tailVars, wlVars, codecVars, blVars>>
  /\ UNCHANGED <<consecutiveEmptySearches, emptyRun, failRun, spc, sretry, sfirst, sseen, sdisc, sdelay,
               sout>>

\* the search of an attempt ends: with results the counter is reset; with none,
\* or with a failure, it is incremented and compared with the threshold, and a
\* tripped breaker calls forceDisconnect() before the settle delay
SkResult(s, kind) ==
  /\ spc[s] = "search"
  /\ LET n == CountAfter(kind, consecutiveEmptySearches)
         trip == kind # "found" /\ Trips(sretry[s], n)
     IN /\ consecutiveEmptySearches' = n
        /\ emptyRun' = (IF kind = "found" THEN 0 ELSE IF kind = "empty" THEN emptyRun + 1
                        ELSE emptyRun)
        /\ failRun' = (IF kind = "found" THEN 0 ELSE IF kind = "error" THEN failRun + 1
                       ELSE failRun)
        /\ sfirst' = IF sretry[s] THEN sfirst ELSE [sfirst EXCEPT ![s] = kind]
        /\ sseen' = IF sretry[s] \/ kind = "found" THEN sseen ELSE [sseen EXCEPT ![s] = n]
        /\ IF trip
             THEN /\ sconn' = "disconnected"
                  /\ sdisc' = [sdisc EXCEPT ![s] = @ + 1]
                  /\ spc' = [spc EXCEPT ![s] = "settle"]
                  /\ UNCHANGED sout
             ELSE /\ spc' = [spc EXCEPT ![s] = "done"]
                  /\ sout' = [sout EXCEPT ![s] = SearchOutcome(kind)]
                  /\ UNCHANGED <<sconn, sdisc>>
  /\ UNCHANGED <<lockVars, jobVars, batchVars, hookVars, tailVars, wlVars, codecVars, blVars>>
  /\ UNCHANGED <<sretry, sdelay>>

\* await new Promise(resolve => setTimeout(resolve, 100)) has elapsed; the call
\* goes on as searchTrack(..., isRetry = true)
SkSettled(s) ==
  /\ spc[s] = "settle"
  /\ sdelay' = [sdelay EXCEPT ![s] = @ + 1]
  /\ sretry' = [sretry EXCEPT ![s] = TRUE]
  /\ spc' = [spc EXCEPT ![s] = "connect"]
  /\ UNCHANGED <<lockVars, jobVars, batchVars, hookVars, tailVars, wlVars, codecVars, blVars>>
  /\ UNCHANGED <<sconn, consecutiveEmptySearches, emptyRun, failRun, sfirst, sseen, sdisc, sout>>

(* ----------------- SoulseekService: failed-user blocklist --------------- *)
\* failures at which a peer counts as blocked
FAILURE_THRESHOLD == 2

\* no soulseek:failed-user: key for the peer
NoFailures == [count |-> 0, ttl |-> 0]

\* the check compares with one more than the threshold
ReachedThresholdLate(count) == count > FAILURE_THRESHOLD

\* count >= FAILURE_THRESHOLD
ReachedThreshold(count) == count >= FAILURE_THRESHOLD

\* a method without its catch block
OnStoreErrorRethrow(op) == "raised"

\* what a blocklist method does with an error of its store call: the check
\* answers false (fail-open), recording swallows it
OnStoreError(op) == IF op = "isUserBlocked" THEN "false" ELSE "swallowed"

\* what isUserBlocked answers: false when the store call throws (fail-open),
\* else whether the stored counter has reached the threshold
IsUserBlockedResult(st, u, err) == ~err /\ ReachedThreshold(st[u].count)

\* markUserFailed(username): increments the peer's counter and (re)starts its
\* TTL; a store error is swallowed and nothing is recorded
MarkUserFailed(u, err) ==
  /\ failedUsers[u].count < MaxFailures
  /\ IF err
       THEN /\ bmark' = [bmark EXCEPT ![u] = OnStoreError("markUserFailed")]
            /\ UNCHANGED <<failedUsers, bres, berr, bgone, bfreed>>
       ELSE /\ failedUsers' = [failedUsers EXCEPT ![u] =
                                 [count |-> @.count + 1, ttl |-> FailedUserTtlTicks]]
            /\ bmark' = [bmark EXCEPT ![u] = "recorded"]
            /\ bres' = [bres EXCEPT ![u] = "none"]
            /\ berr' = [berr EXCEPT ![u] = FALSE]
            /\ bgone' = [bgone EXCEPT ![u] = "none"]
            /\ UNCHANGED bfreed
  /\ UNCHANGED <<lockVars, jobVars, batchVars, hookVars, tailVars, wlVars, codecVars, skVars>>

\* isUserBlocked(username)
IsUserBlocked(u, err) ==
  /\ LET r == IsUserBlockedResult(failedUsers, u, err)
     IN /\ bres' = [bres EXCEPT ![u] = IF err THEN OnStoreError("isUserBlocked")
                                       ELSE IF r THEN "true" ELSE "false"]
        /\ berr' = [berr EXCEPT ![u] = err]
        /\ bfreed' = IF ~r /\ ~err /\ bgone[u] # "none"
                       THEN [bfreed EXCEPT ![u] = @ \cup {bgone[u]}]
                       ELSE bfreed
  /\ UNCHANGED <<failedUsers, bmark, bgone>>
  /\ UNCHANGED <<lockVars, jobVars, batchVars, hookVars, tailVars, wlVars, codecVars, skVars>>

\* clearUserFailures(username): deletes the peer's key; a store error leaves it
ClearUserFailures(u, err) ==
  /\ IF err
       THEN UNCHANGED blVars
       ELSE /\ failedUsers' = [failedUsers EXCEPT ![u] = NoFailures]
            /\ bres' = [bres EXCEPT ![u] = "none"]
            /\ berr' = [berr EXCEPT ![u] = FALSE]
            /\ bgone' = [bgone EXCEPT ![u] =
                           IF ReachedThreshold(failedUsers[u].count) THEN "cleared" ELSE @]
            /\ UNCHANGED <<bmark, bfreed>>
  /\ UNCHANGED <<lockVars, jobVars, batchVars, hookVars, tailVars, wlVars, codecVars, skVars>>

\* one clock tick: every key's TTL runs down and the store drops a key whose
\* TTL has lapsed
BlTick ==
  /\ \E u \in Peers : failedUsers[u].count > 0
  /\ failedUsers' = [u \in Peers |->
                       IF failedUsers[u].count = 0 \/ failedUsers[u].ttl = 1 THEN NoFailures
                       ELSE [failedUsers[u] EXCEPT !.ttl = @ - 1]]
  /\ bres' = [u \in Peers |-> IF failedUsers'[u] = failedUsers[u] THEN bres[u] ELSE "none"]
  /\ berr' = [u \in Peers |-> IF failedUsers'[u] = failedUsers[u] THEN berr[u] ELSE FALSE]
  /\ bgone' = [u \in Peers |->
                 IF failedUsers[u].ttl = 1 /\ ReachedThreshold(failedUsers[u].count)
                   THEN "lapsed" ELSE bgone[u]]
  /\ UNCHANGED <<bmark, bfreed>>
  /\ UNCHANGED <<lockVars, jobVars, batchVars, hookVars, tailVars, wlVars, codecVars, skVars>>

(* ---------------------- EventBus and GET /api/events -------------------- *)
\* what a response receives
Connected == [kind |-> "connected", user |-> 0, n |-> 0]
Heartbeat == [kind |-> "heartbeat", user |-> 0, n |-> 0]
EventData(u, n) == [kind |-> "event", user |-> u, n |-> n]

\* a listener without the userId test
ListenerAcceptsAll(eventUser, userId) == TRUE

\* listener: if (event.userId === userId)
ListenerAccepts(eventUser, userId) == eventUser = userId

\* safeSend: writes only while !res.destroyed && !res.writableEnded
SafeSend(c) == epc[c] = "open"

\* GET /api/events?token=...: ok: the token verifies for user u, the user
\* exists and the token version matches; gone: the client went away while the
\* user lookup was awaited; connections are numbered in their order of arrival
\* and users in the order of their first connection
SseGet(c, u, ok, gone) ==
  /\ epc[c] = "idle"
  /\ \A d \in Conns : d < c => epc[d] # "idle"
  /\ \A v \in Users : v < u => \E d \in Conns : euser[d] = v
  /\ IF ~ok
       THEN /\ epc' = [epc EXCEPT ![c] = "rejected"]
            /\ UNCHANGED <<euser, listeners, connections, heartbeat, ewritten>>
       ELSE /\ euser' = [euser EXCEPT ![c] = u]
            /\ epc' = [epc EXCEPT ![c] = IF gone THEN "dead" ELSE "open"]
            /\ ewritten' = [ewritten EXCEPT ![c] = IF gone THEN @ ELSE @ \cup {Connected}]
            /\ connections' = [connections EXCEPT ![u] = @ \cup {c}]
            /\ listeners' = listeners \cup {c}
            /\ heartbeat' = [heartbeat EXCEPT ![c] = TRUE]
  /\ UNCHANGED <<lockVars, jobVars, batchVars, hookVars, wlVars, codecVars, peerVars, gcVars, emitted>>

\* eventBus.emit({type, userId: u, payload}): the emitter calls every
\* subscribed listener in turn
EbEmit(u) ==
  /\ emitted < MaxEmits
  /\ emitted' = emitted + 1
  /\ ewritten' = [c \in Conns |->
                    IF c \in listeners /\ ListenerAccepts(u, euser[c]) /\ SafeSend(c)
                      THEN ewritten[c] \cup {EventData(u, emitted + 1)}
                      ELSE ewritten[c]]
  /\ UNCHANGED <<lockVars, jobVars, batchVars, hookVars, wlVars, codecVars, peerVars, gcVars,
                 epc, euser, listeners, connections, heartbeat>>

\* the client goes away: the socket is destroyed, the close event is pending
SseSocketClose(c) ==
  /\ epc[c] = "open"
  /\ epc' = [epc EXCEPT ![c] = "closing"]
  /\ UNCHANGED <<lockVars, jobVars, batchVars, hookVars, wlVars, codecVars, peerVars, gcVars,
                 euser, listeners, connections, heartbeat, ewritten, emitted>>

\* req.on("close"): clearInterval(heartbeat); unsubscribe(); the response is
\* taken out of the connections map
SseOnClose(c) ==
  /\ epc[c] = "closing"
  /\ epc' = [epc EXCEPT ![c] = "closed"]
  /\ heartbeat' = [heartbeat EXCEPT ![c] = FALSE]
  /\ listeners' = listeners \ {c}
  /\ connections' = [connections EXCEPT ![euser[c]] = @ \ {c}]
  /\ UNCHANGED <<lockVars, jobVars, batchVars, hookVars, wlVars, codecVars, peerVars, gcVars,
                 euser, ewritten, emitted>>

\* the heartbeat interval fires: a heartbeat that cannot be written clears the
\* interval and unsubscribes
SseHeartbeat(c) ==
  /\ heartbeat[c]
  /\ IF SafeSend(c)
       THEN /\ ewritten' = [ewritten EXCEPT ![c] = @ \cup {Heartbeat}]
            /\ UNCHANGED <<heartbeat, listeners>>
       ELSE /\ heartbeat' = [heartbeat EXCEPT ![c] = FALSE]
            /\ listeners' = listeners \ {c}
            /\ UNCHANGED ewritten
  /\ UNCHANGED <<lockVars, jobVars, batchVars, hookVars, wlVars, codecVars, peerVars, gcVars,
                 epc, euser, connections, emitted>>

(* --------------------------- data cleanup cron -------------------------- *)
\* cutoffDate.setDate(cutoffDate.getDate() - RETENTION_DAYS...)
CutoffDate(now) == now - RetentionDays

\* a where clause for jobs without the completedAt condition
JobWhereAnyAge(job, cutoff) == job.status \in {"completed", "failed"}

\* where: { status: { in: ["completed", "failed"] }, completedAt: { lt: cutoffDate } };
\* a null completedAt matches no comparison
JobWhere(job, cutoff) ==
  /\ job.status \in {"completed", "failed"}
  /\ job.completedAt # -1 /\ job.completedAt < cutoff

\* where: { processed: true, createdAt: { lt: cutoffDate } }
EventWhere(ev, cutoff) == ev.processed /\ ev.createdAt < cutoff

\* a download job is created; rows are numbered in their order of creation
GcJobCreate(j) ==
  /\ gjobs[j].status = "none"
  /\ \A i \in JobRows : i < j => gjobs[i].status # "none"
  /\ gjobs' = [gjobs EXCEPT ![j] = [present |-> TRUE, status |-> "pending", completedAt |-> -1]]
  /\ UNCHANGED <<lockVars, jobVars, batchVars, hookVars, wlVars, codecVars, peerVars,
                 sseVars, gevents, gnow, gpc>>

\* a callback moves a stored job on; stamp: a job that reaches a terminal status
\* gets its completedAt set
GcJobAdvance(j, st, stamp) ==
  /\ gjobs[j].present
  /\ st \in NextStatuses(gjobs[j].status)
  /\ gjobs' = [gjobs EXCEPT ![j].status = st,
                            ![j].completedAt =
                               IF st \in {"completed", "failed"} /\ stamp THEN gnow ELSE @]
  /\ UNCHANGED <<lockVars, jobVars, batchVars, hookVars, wlVars, codecVars, peerVars,
                 sseVars, gevents, gnow, gpc>>

\* a webhook event is stored; rows are numbered in their order of creation
GcEventStore(e) ==
  /\ ~gevents[e].stored
  /\ \A i \in EventRows : i < e => gevents[i].stored
  /\ gevents' = [gevents EXCEPT ![e] = [present |-> TRUE, stored |-> TRUE,
                                        processed |-> FALSE, createdAt |-> gnow]]
  /\ UNCHANGED <<lockVars, jobVars, batchVars, hookVars, wlVars, codecVars, peerVars,
                 sseVars, gjobs, gnow, gpc>>

\* a stored event is marked processed
GcEventProcessed(e) ==
  /\ gevents[e].present /\ ~gevents[e].processed
  /\ gevents' = [gevents EXCEPT ![e].processed = TRUE]
  /\ UNCHANGED <<lockVars, jobVars, batchVars, hookVars, wlVars, codecVars, peerVars,
                 sseVars, gjobs, gnow, gpc>>

\* a day passes
GcDay ==
  /\ gnow < MaxDay
  /\ gnow' = gnow + 1
  /\ UNCHANGED <<lockVars, jobVars, batchVars, hookVars, wlVars, codecVars, peerVars,
                 sseVars, gjobs, gevents, gpc>>

\* the cron task fires and calls cleanupDownloadJobs(): deleteMany; err: it
\* throws and the run's catch ends the run
CleanupDownloadJobs(err) ==
  /\ gpc = "idle"
  /\ IF err
       THEN /\ gpc' = "idle"
            /\ UNCHANGED gjobs
       ELSE /\ gjobs' = [j \in JobRows |->
                          IF gjobs[j].present /\ JobWhere(gjobs[j], CutoffDate(gnow))
                            THEN [gjobs[j] EXCEPT !.present = FALSE]
                            ELSE gjobs[j]]
            /\ gpc' = "events"
  /\ UNCHANGED <<lockVars, jobVars, batchVars, hookVars, wlVars, codecVars, peerVars,
                 sseVars, gevents, gnow>>

\* cleanupWebhookEvents(): deleteMany; err: it throws
CleanupWebhookEvents(err) ==
  /\ gpc = "events"
  /\ gevents' = IF err THEN gevents
                ELSE [e \in EventRows |->
                        IF gevents[e].present /\ EventWhere(gevents[e], CutoffDate(gnow))
                          THEN [gevents[e] EXCEPT !.present = FALSE]
                          ELSE gevents[e]]
  /\ gpc' = "idle"
  /\ UNCHANGED <<lockVars, jobVars, batchVars, hookVars, wlVars, codecVars, peerVars,
                 sseVars, gjobs, gnow>>

InitCleanup ==
  /\ gjobs = [j \in JobRows |-> [present |-> FALSE, status |-> "none", completedAt |-> -1]]
  /\ gevents = [e \in EventRows |-> [present |-> FALSE, stored |-> FALSE, processed |-> FALSE,
                                 createdAt |-> 0]]
  /\ gnow = 0
  /\ gpc = "idle"

InitSse ==
  /\ epc = [c \in Conns |-> "idle"]
  /\ euser = [c \in Conns |-> 0]
  /\ listeners = {}
  /\ connections = [u \in Users |-> {}]
  /\ heartbeat = [c \in Conns |-> FALSE]
  /\ ewritten = [c \in Conns |-> {}]
  /\ emitted = 0

InitLock ==
  /\ lockStore = [k \in Keys |-> Absent]
  /\ lockLast = [op |-> "none", inst |-> 0, key |-> 0, err |-> FALSE, result |-> FALSE,
                 raised |-> FALSE,
                 lapsed |-> {}]
  /\ lockGrants = [k \in Keys |-> 0]
  /\ lockClock = [k \in Keys |-> NoClock]

InitJobs ==
  /\ jobs = <<>>
  /\ cpc = [c \in Callers |-> "idle"]
  /\ ctuple = [c \in Callers |-> 0]
  /\ cresult = [c \in Callers |-> 0]
  /\ coutcome = [c \in Callers |-> "none"]
  /\ coverlap = [c \in Callers |-> {}]
  /\ cstoreErr = FALSE

InitBatch ==
  /\ batch = [version |-> InitVersion, fields |-> [f \in Fields |-> 0]]
  /\ ubid = [u \in Updaters |-> "batch"]
  /\ upc = [u \in Updaters |-> "idle"]
  /\ udata = [u \in Updaters |-> {}]
  /\ umax = [u \in Updaters |-> 0]
  /\ ucur = [u \in Updaters |-> 0]
  /\ uretries = [u \in Updaters |-> 0]
  /\ ures = [u \in Updaters |-> NoResult]
  /\ uapplied = [u \in Updaters |-> 0]
  /\ ureads = [u \in Updaters |-> 0]
  /\ uraced = [u \in Updaters |-> {}]
  /\ uwrites = [u \in Updaters |-> 0]
  /\ usleeps = [u \in Updaters |-> 0]

InitHook ==
  /\ events = <<>>
  /\ rpc = [r \in Requests |-> "idle"]
  /\ rext = [r \in Requests |-> 0]
  /\ rresp = [r \in Requests |-> 0]
  /\ rev = [r \in Requests |-> 0]
  /\ ppc = [r \in Requests |-> "none"]
  /\ rcorr = [r \in Requests |-> 0]
  /\ radv = [r \in Requests |-> 0]
  /\ rin = [r \in Requests |-> [seen |-> FALSE, enabled |-> FALSE, secretOk |-> FALSE]]
  /\ rerr = [r \in Requests |-> ""]
  /\ rraised = [r \in Requests |-> FALSE]
  /\ handlerRuns = [i \in Requests |-> 0]

InitWl ==
  /\ wpc = [w \in WlCalls |-> "idle"]
  /\ wkey = [w \in WlCalls |-> 0]
  /\ wacq = [w \in WlCalls |-> FALSE]
  /\ wcb = [w \in WlCalls |-> "none"]
  /\ wrel = [w \in WlCalls |-> "none"]
  /\ wout = [w \in WlCalls |-> "none"]
  /\ wholder = [k \in Keys |-> 0]

InitCodec ==
  /\ data = <<>>
  /\ pointer = 0
  /\ mlast = [op |-> "none", at |-> 0, size |-> 0, ok |-> TRUE, value |-> NoValue, err |-> ""]

InitBreaker ==
  /\ sconn = "disconnected"
  /\ consecutiveEmptySearches = 0
  /\ emptyRun = 0
  /\ failRun = 0
  /\ spc = [s \in Searches |-> "idle"]
  /\ sretry = [s \in Searches |-> FALSE]
  /\ sfirst = [s \in Searches |-> "none"]
  /\ sseen = [s \in Searches |-> 0]
  /\ sdisc = [s \in Searches |-> 0]
  /\ sdelay = [s \in Searches |-> 0]
  /\ sout = [s \in Searches |-> "none"]

InitBlocklist ==
  /\ failedUsers = [u \in Peers |-> NoFailures]
  /\ bres = [u \in Peers |-> "none"]
  /\ berr = [u \in Peers |-> FALSE]
  /\ bmark = [u \in Peers |-> "none"]
  /\ bgone = [u \in Peers |-> "none"]
  /\ bfreed = [u \in Peers |-> {}]

vars == <<lockVars, jobVars, batchVars, hookVars, restVars>>

Init ==
  /\ InitLock /\ InitJobs /\ InitBatch /\ InitHook /\ InitWl /\ InitCodec
  /\ InitBreaker /\ InitBlocklist /\ InitSse /\ InitCleanup

NextBreaker ==
  \/ \E s \in Searches : SkCall(s)
  \/ \E s \in Searches : SkEnsureConnected(s)
  \/ SkConnected
  \/ \E s \in Searches, kind \in SearchResults : SkResult(s, kind)
  \/ \E s \in Searches : SkSettled(s)

SpecBreaker == Init /\ [][NextBreaker]_vars

NextBlocklist ==
  \/ \E u \in Peers, err \in BOOLEAN : MarkUserFailed(u, err)
  \/ \E u \in Peers, err \in BOOLEAN : IsUserBlocked(u, err)
  \/ \E u \in Peers, err \in BOOLEAN : ClearUserFailures(u, err)
  \/ BlTick

SpecBlocklist == Init /\ [][NextBlocklist]_vars

NextCodec ==
  \/ \E d \in Buffers : MpNew(d)
  \/ MpInt8
  \/ MpInt32
  \/ MpInt64
  \/ MpStr
  \/ \E size \in 0..(MaxBufLen + 1) : MpRawHexStr(size)

SpecCodec == Init /\ [][NextCodec]_vars

NextWl ==
  \/ \E w \in WlCalls, k \in Keys, ttl \in Ttls, err \in BOOLEAN : WlCall(w, k, ttl, err)
  \/ \E w \in WlCalls, threw \in BOOLEAN : WlCallback(w, threw)
  \/ \E w \in WlCalls, err \in BOOLEAN : WlRelease(w, err)
  \/ WlTick

SpecWl == Init /\ [][NextWl]_vars

NextLock ==
  \/ \E i \in Instances, k \in Keys, ttl \in Ttls, err \in BOOLEAN : Acquire(i, k, ttl, err)
  \/ \E i \in Instances, k \in Keys, err \in BOOLEAN : Release(i, k, err)
  \/ Tick

SpecLock == Init /\ [][NextLock]_vars

NextJobs ==
  \/ \E c \in Callers, t \in Tuples : CjCall(c, t)
  \/ \E c \in Callers, err \in BOOLEAN : WithLockAcquire(c, err)
  \/ \E c \in Callers : CjFind(c)
  \/ \E c \in Callers : CjInsert(c)
  \/ \E c \in Callers, err \in BOOLEAN : WithLockRelease(c, err)
  \/ \E j \in Callers, st \in {"processing", "completed", "failed"} : JobCallback(j, st)
  \/ JobTick

SpecJobs == Init /\ [][NextJobs]_vars

NextBatch ==
  \/ \E u \in Updaters, id \in BatchIds, fs \in SUBSET Fields, mr \in 0..MaxRetry :
       UbCall(u, id, fs, mr)
  \/ \E u \in Updaters, err \in BOOLEAN : UbRead(u, err)
  \/ \E u \in Updaters, err \in BOOLEAN : UbWrite(u, err)

SpecBatch == Init /\ [][NextBatch]_vars

NextHook ==
  \/ \E r \in Requests, e \in ExtEvents, sec \in Secrets, st \in Settings, err \in BOOLEAN :
       WhReceive(r, e, sec, st, err)
  \/ \E r \in Requests, err \in BOOLEAN : WhStore(r, err)
  \/ \E r \in Requests : WhRespond(r)
  \/ \E r \in Requests : WhProcess(r)
  \/ \E r \in Requests, out \in {"matched", "nomatch", "raise"} : WhHandler(r, out)
  \/ \E r \in Requests, err \in BOOLEAN : WhMarkProcessed(r, err)
  \/ \E r \in Requests, err \in BOOLEAN : WhMarkFailed(r, err)

SpecHook == Init /\ [][NextHook]_vars

NextSse ==
  \/ \E c \in Conns, u \in Users, ok \in BOOLEAN, gone \in BOOLEAN : SseGet(c, u, ok, gone)
  \/ \E u \in Users : EbEmit(u)
  \/ \E c \in Conns : SseSocketClose(c)
  \/ \E c \in Conns : SseOnClose(c)
  \/ \E c \in Conns : SseHeartbeat(c)

SpecSse == Init /\ [][NextSse]_vars

NextCleanup ==
  \/ \E j \in JobRows : GcJobCreate(j)
  \/ \E j \in JobRows, st \in {"processing", "completed", "failed"}, stamp \in BOOLEAN :
       GcJobAdvance(j, st, stamp)
  \/ \E e \in EventRows : GcEventStore(e)
  \/ \E e \in EventRows : GcEventProcessed(e)
  \/ GcDay
  \/ \E err \in BOOLEAN : CleanupDownloadJobs(err)
  \/ \E err \in BOOLEAN : CleanupWebhookEvents(err)

SpecCleanup == Init /\ [][NextCleanup]_vars

Concurrent(c1, c2) == c1 \in coverlap[c2] \/ c2 \in coverlap[c1]

\* ids of all jobs of tuple t
JobsOf(t) == {j \in 1..Len(jobs) : jobs[j].tuple = t}

\* C2: two concurrent createDownloadJob calls for the same tuple (no store
\* error, no job of the tuple finished meanwhile) leave exactly one persisted
\* job and both resolve, without failing, to that job's id.
C2_ConcurrentCallsSameJob ==
  \A c1, c2 \in Callers :
    ( /\ c1 # c2
      /\ cpc[c1] = "done" /\ cpc[c2] = "done"
      /\ ctuple[c1] = ctuple[c2]
      /\ Concurrent(c1, c2)
      /\ ~cstoreErr
      /\ \A j \in JobsOf(ctuple[c1]) : NonTerminal(jobs[j].status) )
    => ( /\ coutcome[c1] = "ok" /\ coutcome[c2] = "ok"
         /\ cresult[c1] = cresult[c2]
         /\ Cardinality(JobsOf(ctuple[c1])) = 1 )

\* C5: on one key at most one acquire returns true until the key is released
\* or expires: while the key is present it has been granted exactly once, and
\* an acquire that returned true found the key absent.
C5_AtMostOneAcquire ==
  /\ \A k \in Keys : lockGrants[k] = (IF lockStore[k] = Absent THEN 0 ELSE 1)
  /\ (lockLast.op = "acquire" /\ lockLast.result)
       => ( /\ lockGrants[lockLast.key] = 1
            /\ lockStore[lockLast.key].token = lockValue(lockLast.inst) )

\* an acquire of a key another instance holds has just returned false
C5_Witness ==
  /\ lockLast.op = "acquire" /\ ~lockLast.result /\ ~lockLast.err
  /\ lockStore[lockLast.key] # Absent
  /\ lockStore[lockLast.key].token # lockValue(lockLast.inst)

\* C6: a release by an instance whose owner token differs from the token
\* stored under the key returns false and leaves the key, its token and its
\* TTL as they were.
C6_NonOwnerReleaseKeeps ==
  [][ ( /\ lockLast' # lockLast
        /\ lockLast'.op = "release"
        /\ lockStore[lockLast'.key] # Absent
        /\ lockStore[lockLast'.key].token # lockValue(lockLast'.inst) )
      => ( lockStore' = lockStore /\ ~lockLast'.result ) ]_vars

\* a release by a non-owner has just returned false and the key is still there
C6_Witness ==
  /\ lockLast.op = "release" /\ ~lockLast.result /\ ~lockLast.err
  /\ lockStore[lockLast.key] # Absent
  /\ lockStore[lockLast.key].token # lockValue(lockLast.inst)

\* call w's withLock, which had acquired the lock, ends at this step
WlEnds(w) == wacq[w] /\ wpc[w] # "done" /\ wpc'[w] = "done"

\* an acquire of key k that reaches store s succeeds, whoever calls it
Acquirable(s, k) ==
  \A i \in Instances, ttl \in Ttls : AcquireOp(s, i, k, ttl, FALSE).result

\* C11 as stated: when a withLock that had acquired the lock ends, by return or
\* by exception, the key is not held with the caller's token and an acquire of
\* the key succeeds at once.
C11_WithLockReleases ==
  [][\A w \in WlCalls :
       WlEnds(w) =>
         /\ lockStore'[wkey[w]].token # lockValue(winst[w])
         /\ Acquirable(lockStore', wkey[w])]_vars

\* C11 amended: when a withLock that had acquired the lock ends, by return or
\* by exception, and its release call reached the store while no other instance
\* had taken the key after the TTL lapsed, the key is absent and an acquire of
\* the key succeeds at once.
C11_WithLockReleasesUnlessStoreFails ==
  [][\A w \in WlCalls :
       ( /\ WlEnds(w)
         /\ wrel'[w] # "error"
         /\ lockStore[wkey[w]].token \in {0, lockValue(winst[w])} )
       => ( /\ lockStore'[wkey[w]] = Absent
            /\ Acquirable(lockStore', wkey[w]) )]_vars

\* a withLock whose callback threw has ended with the key released
C11_Witness ==
  \E w \in WlCalls :
    /\ wpc[w] = "done" /\ wcb[w] = "threw" /\ wrel[w] = "released"
    /\ lockStore[wkey[w]] = Absent

\* C13: a withLock whose acquire failed ends with the lock-unavailable error
\* and its callback never ran; a withLock whose callback threw hands the
\* caller the callback's error, and only after release was attempted.
C13_WithLockErrors ==
  \A w \in WlCalls :
    /\ (wpc[w] # "idle" /\ ~wacq[w]) =>
         (wpc[w] = "done" /\ wout[w] = "LockUnavailable" /\ wcb[w] = "none" /\ wrel[w] = "none")
    /\ wout[w] = "LockUnavailable" => ~wacq[w]
    /\ (wcb[w] = "threw" /\ wpc[w] = "done") => wout[w] = "CallbackError"
    /\ wout[w] = "CallbackError" => (wcb[w] = "threw" /\ wrel[w] # "none")
    /\ wout[w] = "value" => (wcb[w] = "returned" /\ wrel[w] # "none")

\* one withLock was refused the key another call holds, and a call whose
\* callback threw got the callback's error after a release attempt
C13_Witness ==
  \E w1, w2 \in WlCalls :
    /\ wout[w1] = "LockUnavailable" /\ wkey[w1] = wkey[w2]
    /\ wout[w2] = "CallbackError" /\ wrel[w2] # "none"

\* call w's release reaches the store at this step while the key is held under
\* a grant made by another call, after the TTL of w's own grant lapsed
LateRelease(w) ==
  /\ wpc[w] = "release" /\ wpc'[w] = "done" /\ wrel'[w] # "error"
  /\ lockStore[wkey[w]] # Absent
  /\ wholder[wkey[w]] \notin {0, w}

\* C25: the token of a grant is fresh for that acquisition, so the late
\* release of a holder whose lock expired returns false and leaves in place
\* the lock of the call that re-acquired the key, also when both calls go
\* through the same DistributedLock instance.
C25_LateReleaseKeepsNewHolder ==
  [][\A w \in WlCalls :
       LateRelease(w) =>
         /\ lockStore[wkey[w]].token # lockValue(winst[w])
         /\ wrel'[w] = "notheld"
         /\ lockStore' = lockStore]_vars

\* C26: a withLock whose acquire fails issues no release and leaves the key,
\* its owner token and its TTL as they were, also when the caller shares its
\* DistributedLock instance, and so its token, with the holder.
C26_FailedWithLockTouchesNothing ==
  /\ [](\A w \in WlCalls :
          (wpc[w] # "idle" /\ ~wacq[w]) => (wpc[w] = "done" /\ wrel[w] = "none"))
  /\ [][\A w \in WlCalls :
          (wpc[w] = "idle" /\ wpc'[w] # "idle" /\ ~wacq'[w]) =>
            (lockStore' = lockStore /\ wholder' = wholder)]_vars

\* a call was refused a key that is held, under the token of the instance
\* the two share, by another call still inside its callback
C26_Witness ==
  \E w, h \in WlCalls :
    /\ w # h /\ winst[w] = winst[h]
    /\ wout[w] = "LockUnavailable" /\ wrel[w] = "none"
    /\ wpc[h] = "callback" /\ wkey[h] = wkey[w] /\ wholder[wkey[w]] = h
    /\ lockStore[wkey[w]].token = lockValue(winst[w])

\* every job of tuple t is in a terminal status, and there is at least one
PriorJobsTerminal(t) ==
  JobsOf(t) # {} /\ \A j \in JobsOf(t) : ~NonTerminal(jobs[j].status)

\* C14: a createDownloadJob that holds the lock of a tuple whose prior jobs are
\* all terminal finds no job to return and inserts a new pending job; the new
\* job's id differs from every prior job's id and the prior rows stay as they
\* were.
C14_NewJobAfterTerminal ==
  [][\A c \in Callers :
       /\ (cpc[c] = "find" /\ cpc'[c] # "find" /\ PriorJobsTerminal(ctuple[c]))
            => (cpc'[c] = "insert" /\ jobs' = jobs)
       /\ (cpc[c] = "insert" /\ cpc'[c] # "insert" /\ PriorJobsTerminal(ctuple[c]))
            => ( /\ coutcome'[c] = "ok"
                 /\ Len(jobs') = Len(jobs) + 1
                 /\ cresult'[c] = Len(jobs')
                 /\ cresult'[c] \notin JobsOf(ctuple[c])
                 /\ jobs'[cresult'[c]] = [tuple |-> ctuple[c], status |-> "pending"]
                 /\ \A j \in 1..Len(jobs) : jobs'[j] = jobs[j] )]_vars

\* a call has resolved to a new pending job of a tuple whose earlier job is
\* completed or failed
C14_Witness ==
  \E c \in Callers, j \in 1..Len(jobs) :
    /\ cpc[c] = "done" /\ coutcome[c] = "ok"
    /\ j < cresult[c]
    /\ jobs[j].tuple = ctuple[c] /\ jobs[j].status \in {"completed", "failed"}
    /\ jobs[cresult[c]].status = "pending"

\* C32: a createDownloadJob call whose tuple has a non-terminal job when it asks
\* for the tuple's lock (no coordination-store error so far) goes on to the
\* lookup, and the lookup returns that job: the call resolves to the job's id,
\* makes no insert and leaves every job row as it was.
C32_ExistingJobReturnedUnchanged ==
  [][\A c \in Callers :
       /\ ( /\ cpc[c] = "acquire" /\ cpc'[c] # "acquire"
            /\ ActiveJobs(jobs, ctuple[c]) # {}
            /\ ~cstoreErr' )
            => (cpc'[c] = "find" /\ jobs' = jobs)
       /\ ( /\ cpc[c] = "find" /\ cpc'[c] # "find"
            /\ ActiveJobs(jobs, ctuple[c]) # {} )
            => ( /\ cpc'[c] = "release"
                 /\ coutcome'[c] = "ok"
                 /\ cresult'[c] \in ActiveJobs(jobs, ctuple[c])
                 /\ jobs' = jobs )]_vars

\* C12: a lock acquired with TTL t and not released is present, and every
\* acquire of its key fails, while fewer than t ticks have passed since the
\* grant; once t ticks have passed the key is absent and the next acquire that
\* reaches the store, by any instance, succeeds.
C12_TtlBoundsTheGrant ==
  /\ [](\A k \in Keys :
          /\ (lockStore[k] # Absent) <=> (lockClock[k].ttl # 0)
          /\ lockStore[k] # Absent =>
               /\ lockClock[k].age < lockClock[k].ttl
               /\ lockStore[k].ttl = lockClock[k].ttl - lockClock[k].age)
  /\ [][ (lockLast' # lockLast /\ lockLast'.op = "acquire" /\ ~lockLast'.err)
          => (lockLast'.result <=> (lockClock[lockLast'.key].ttl = 0)) ]_vars

\* an instance has just acquired a key whose previous grant, held by another
\* instance, was never released and ended by TTL
C12_Witness ==
  /\ lockLast.op = "acquire" /\ lockLast.result
  /\ \E g \in lockLast.lapsed : g[1] = lockLast.key /\ g[2] # lockValue(lockLast.inst)

\* every call named the stored batch and has returned, and none met a store
\* error other than a conflict
AllUpdatesReturned ==
  \A u \in Updaters :
    upc[u] = "done" /\ ubid[u] = "batch" /\ ures[u].kind # "error"

\* C7 (as claimed): N concurrent update calls against one record starting at
\* version 0 leave it at version N with every call's update applied exactly
\* once, whatever retry budget the calls were given.
C7_AllUpdatesApplied ==
  AllUpdatesReturned
    => ( /\ batch.version = NumUpdaters
         /\ \A u \in Updaters : uapplied[u] = 1 )

\* C7 (amended): when moreover every call's maxRetries is at least N - 1, the
\* record ends at version N, every call returned success with
\* its write applied exactly once, and every field a call named holds the
\* value of one of the calls that named it.
C7_AllAppliedWithBudget ==
  (AllUpdatesReturned /\ \A u \in Updaters : umax[u] >= NumUpdaters - 1)
    => ( /\ batch.version = InitVersion + NumUpdaters
         /\ \A u \in Updaters : uapplied[u] = 1 /\ ures[u].kind = "success"
         /\ \A f \in Fields :
              batch.fields[f] \in
                IF \E u \in Updaters : f \in udata[u]
                  THEN {ValueOf(u) : u \in {w \in Updaters : f \in udata[w]}}
                  ELSE {0} )

\* all N calls succeeded and at least one of them had to retry
C7_Witness ==
  /\ AllUpdatesReturned
  /\ \A u \in Updaters : umax[u] >= NumUpdaters - 1 /\ ures[u].kind = "success"
  /\ \E u \in Updaters : ures[u].retries > 0

\* C8: the batch's version is its initial version plus the number of update
\* calls that returned success; a call that failed or gave up left it alone.
C8_VersionCountsSuccesses ==
  /\ batch.version = InitVersion + Cardinality({u \in Updaters : ures[u].kind = "success"})
  /\ \A u \in Updaters : uapplied[u] = (IF ures[u].kind = "success" THEN 1 ELSE 0)

\* one call succeeded and another gave up after exhausting its retries
C8_Witness ==
  \E u, w \in Updaters :
    /\ ures[u].kind = "success" /\ ures[w].kind = "maxretries"
    /\ batch.version = InitVersion + 1

\* calls u and w are the only ones made, named the stored batch, set
\* different fields, held the same read version at the same time, met no
\* store error other than the conflict, and have both returned
RacedPair(u, w) ==
  /\ u # w /\ w \in uraced[u]
  /\ \A x \in Updaters \ {u, w} : upc[x] = "idle"
  /\ upc[u] = "done" /\ upc[w] = "done"
  /\ ures[u].kind # "error" /\ ures[w].kind # "error"
  /\ udata[u] # {} /\ udata[w] # {} /\ udata[u] \cap udata[w] = {}

\* both returned success, one of them after a retry, and the record has the
\* new value of both calls' fields at a version 2 higher
BothApplied(u, w) ==
  /\ ures[u].kind = "success" /\ ures[w].kind = "success"
  /\ ures[u].retries + ures[w].retries > 0
  /\ \A f \in udata[u] : batch.fields[f] = ValueOf(u)
  /\ \A f \in udata[w] : batch.fields[f] = ValueOf(w)
  /\ batch.version = InitVersion + 2

\* C23 as stated: two concurrent updates of one batch that set different
\* fields both return success, at least one after a retry, and the record
\* ends with both new values and its version raised by exactly 2.
C23_ConcurrentUpdatesBothApply ==
  \A u, w \in Updaters : RacedPair(u, w) => BothApplied(u, w)

\* C23 amended: the same, for two calls that each allow at least one retry
\* (maxRetries >= 1).
C23_ConcurrentUpdatesBothApplyWithRetry ==
  \A u, w \in Updaters :
    (RacedPair(u, w) /\ umax[u] >= 1 /\ umax[w] >= 1) => BothApplied(u, w)

\* two calls read version 0 together; the loser of the write retried once
\* and both are applied
C23_Witness ==
  \E u, w \in Updaters :
    /\ RacedPair(u, w) /\ umax[u] >= 1 /\ umax[w] >= 1
    /\ ures[u].retries = 0 /\ ures[w].retries = 1 /\ ures[w].version = InitVersion + 2
    /\ BothApplied(u, w)

\* C24: a successful update changes only the fields its data names, to the
\* values it names, and the version, which goes up by one; every other field
\* keeps the value it had, and a step that applies no update leaves the row
\* as it was.
C24_UpdateTouchesOnlyItsFields ==
  [][ /\ \A u \in Updaters :
           uapplied'[u] # uapplied[u] =>
             /\ ures'[u].kind = "success"
             /\ batch'.version = batch.version + 1
             /\ \A f \in Fields :
                  batch'.fields[f] = IF f \in udata[u] THEN ValueOf(u) ELSE batch.fields[f]
      /\ uapplied' = uapplied => batch' = batch ]_vars

\* the last update applied named one field only, and the other field still
\* holds what an earlier update of another call had put there
C24_Witness ==
  \E u, w \in Updaters :
    /\ u # w
    /\ ures[u].kind = "success" /\ ures[w].kind = "success"
    /\ ures[w].version < ures[u].version /\ ures[u].version = batch.version
    /\ \E f \in Fields \ udata[u] : f \in udata[w] /\ batch.fields[f] = ValueOf(w)

\* C27: every attempt of an update, the retries included, reads the row's
\* version again before it writes; a write is applied only when the row's
\* version at the write is the one that attempt read, a write that finds
\* another version changes nothing, and the call then goes back to reading
\* unless it has used up its retries or the store call itself failed.
C27_WritesOnlyOnTheVersionRead ==
  /\ [](\A u \in Updaters :
          /\ upc[u] = "write" => ureads[u] = uwrites[u] + 1
          /\ uwrites[u] <= ureads[u])
  /\ [][\A u \in Updaters :
          /\ uapplied'[u] # uapplied[u] =>
               (batch.version = ucur[u] /\ batch'.version = ucur[u] + 1)
          /\ (uwrites'[u] # uwrites[u] /\ batch.version # ucur[u]) =>
               (batch' = batch /\ uapplied'[u] = uapplied[u]
                /\ upc'[u] \in {"read", "done"}
                /\ (upc'[u] = "done" => ures'[u].kind \in {"maxretries", "error"}))]_vars

\* a call lost the race on version 0, read version 1 on its retry and was
\* applied on it
C27_Witness ==
  \E u \in Updaters :
    /\ ures[u].kind = "success" /\ ures[u].retries = 1
    /\ ureads[u] = 2 /\ uwrites[u] = 2 /\ uapplied[u] = 1
    /\ ucur[u] = InitVersion + 1 /\ ures[u].version = InitVersion + 2

\* the calls other than u whose write has been applied
AppliedOthers(u) == {w \in Updaters \ {u} : uapplied[w] >= 1}

\* the calls made so far
CallsMade == {w \in Updaters : upc[w] # "idle"}

\* C28: with only update calls writing the batch, a call meets a version
\* conflict only when another call's write was applied after the version it
\* read; so a call has no more conflicts than other calls have succeeded, and
\* among K calls one whose maxRetries is at least K - 1 never runs out of
\* retries.
C28_ConflictsComeFromOtherWrites ==
  /\ [](\A u \in Updaters :
          /\ uretries[u] <= Cardinality(AppliedOthers(u))
          /\ ures[u].kind = "maxretries" => umax[u] < Cardinality(CallsMade) - 1)
  /\ [][\A u \in Updaters :
          uretries'[u] > uretries[u] =>
            /\ batch.version > ucur[u]
            /\ \E w \in AppliedOthers(u) : ures[w].version > ucur[u]]_vars

\* a call allowed K - 1 retries has lost the race to another call's write
\* and is about to read again
C28_Witness ==
  \E u \in Updaters :
    /\ upc[u] = "read" /\ uretries[u] = 1 /\ umax[u] >= NumUpdaters - 1
    /\ \E w \in AppliedOthers(u) : ures[w].version = ucur[u] + 1

(* ------------------------- claims: webhook inbox ------------------------ *)
Stored(r) == rev[r] # 0
ProcessingStarted(r) == ppc[r] # "none"
RunEnded(r) == ppc[r] \in {"done", "rejected"}

\* C3: an external event delivered more than once is processed at most once:
\* the job-state callback runs at most one time for its stored row.
C3_HandlerRunsAtMostOnce ==
  \A i \in 1..Len(events) : handlerRuns[i] <= 1

\* C4: storeEvent called again with an identifier already stored leaves exactly
\* one row for that identifier and returns the row the first call stored, for
\* any number of deliveries.
C4_StoreEventIdempotent ==
  /\ \A i, j \in 1..Len(events) : events[i].ext = events[j].ext => i = j
  /\ \A r \in Requests :
       Stored(r) => rev[r] \in 1..Len(events) /\ events[rev[r]].ext = rext[r]
  /\ \A r1, r2 \in Requests :
       (Stored(r1) /\ Stored(r2) /\ rext[r1] = rext[r2]) => rev[r1] = rev[r2]

C4_Witness ==
  \E r1, r2 \in Requests :
    /\ r1 # r2 /\ Stored(r1) /\ Stored(r2)
    /\ rext[r1] = rext[r2]
    /\ Len(events) = 1

\* C9: for every request the route stores the event, then sends the success
\* response, then starts processing: a success response implies the event is
\* stored, processing started implies the success response was sent, and a
\* request that was not accepted is neither stored nor processed.
C9_StoreRespondProcess ==
  \A r \in Requests :
    /\ rresp[r] = 200 =>
         Stored(r) /\ rev[r] \in 1..Len(events) /\ events[rev[r]].ext = rext[r]
    /\ ProcessingStarted(r) => rresp[r] = 200
    /\ rresp[r] \in {202, 401, 500} => ~Stored(r) /\ ~ProcessingStarted(r)

C9_Witness ==
  \E r \in Requests : ProcessingStarted(r) /\ rresp[r] = 200 /\ rpc[r] = "end"

\* the response of a stored event is success and nothing else
ResponseIsSuccess ==
  \A r \in Requests :
    /\ Stored(r) => rresp[r] \in {0, 200}
    /\ (Stored(r) /\ rpc[r] = "end") => rresp[r] = 200

\* C10 as stated: once the event is stored the response is success whatever
\* processing does, and a run whose handler raised ends with the event marked
\* failed.
C10_HandlerErrorMarksFailed ==
  /\ ResponseIsSuccess
  /\ \A r \in Requests :
       (rraised[r] /\ RunEnded(r)) => events[rev[r]].failureReason # ""

\* C10 amended: once the event is stored the response is success whatever
\* processing does; a handler that raises leads to markFailed being called
\* with the error's message, and the event is marked failed with that reason
\* when markFailed itself succeeds; when markFailed throws, the rejection ends
\* in the route's .catch and the response stays success.
C10_HandlerErrorCallsMarkFailed ==
  /\ [](ResponseIsSuccess
        /\ \A r \in Requests :
             /\ rraised[r] => ppc[r] \in {"markFailed", "done", "rejected"}
             /\ (rraised[r] /\ ppc[r] = "done") => events[rev[r]].failureReason # "")
  /\ [][\A r \in Requests :
          (ppc[r] = "markFailed" /\ ppc'[r] = "done") =>
             events'[rev[r]].failureReason = rerr[r]]_vars

C10_Witness ==
  \E r \in Requests :
    /\ rraised[r] /\ ppc[r] = "done"
    /\ events[rev[r]].failureReason = "handler error"
    /\ rresp[r] = 200

\* C29 as stated: every processing run that has ended left its event in one
\* terminal state: marked processed when neither the handler nor markProcessed
\* raised, marked failed with a reason when one of them raised.
C29_RunEndsProcessedOrFailed ==
  \A r \in Requests :
    RunEnded(r) =>
      IF rerr[r] = "" THEN events[rev[r]].processed
                      ELSE events[rev[r]].failureReason # ""

\* C29, amended: a run writes the event row at most once. When the handler and
\* markProcessed complete, that write marks the event processed and leaves its
\* failure reason alone. When one of them raises, the run writes nothing until
\* it calls markFailed with the error's message; a markFailed that succeeds
\* records that message and leaves the processed flag alone, a markFailed that
\* raises ends the run with the row untouched. An ended run takes no more steps.
C29_RunEndsInOneOutcome ==
  /\ [](\A r \in Requests :
          /\ (ppc[r] = "done" /\ rerr[r] = "") => events[rev[r]].processed
          /\ (ppc[r] = "done" /\ rerr[r] # "") => events[rev[r]].failureReason # ""
          /\ ppc[r] \in {"markFailed", "rejected"} => rerr[r] # "")
  /\ [][\A r \in Requests :
          /\ (ppc[r] = "handler" /\ ppc'[r] # "handler") =>
                /\ events' = events
                /\ \/ ppc'[r] = "mark" /\ rerr'[r] = ""
                   \/ ppc'[r] = "markFailed" /\ rerr'[r] # ""
          /\ (ppc[r] = "mark" /\ ppc'[r] # "mark") =>
                \/ /\ ppc'[r] = "done" /\ rerr'[r] = ""
                   /\ events'[rev[r]].processed
                   /\ events'[rev[r]].failureReason = events[rev[r]].failureReason
                \/ /\ ppc'[r] = "markFailed" /\ rerr'[r] # ""
                   /\ events' = events
          /\ (ppc[r] = "markFailed" /\ ppc'[r] # "markFailed") =>
                \/ /\ ppc'[r] = "done"
                   /\ events'[rev[r]].failureReason = rerr[r]
                   /\ events'[rev[r]].processed = events[rev[r]].processed
                \/ /\ ppc'[r] = "rejected"
                   /\ events' = events
          /\ RunEnded(r) => (ppc'[r] = ppc[r] /\ rerr'[r] = rerr[r])]_vars

\* a run whose markProcessed raised and whose markFailed recorded the message
C29_Witness ==
  \E r \in Requests :
    /\ ppc[r] = "done" /\ ~rraised[r]
    /\ rerr[r] = "store error"
    /\ events[rev[r]].failureReason = "store error"
    /\ ~events[rev[r]].processed

\* C30: the correlation id a run hands to markProcessed, and markProcessed
\* records, is the id of the job its callback matched by the payload's download
\* id; a run whose callback matched nothing, or whose payload carries no
\* download id (no callback is invoked for such an event), changed no job and
\* marks the event processed with no correlation id.
C30_CorrelationIsMatchedJob ==
  /\ [](\A r \in Requests :
          /\ rcorr[r] = radv[r]
          /\ radv[r] # 0 =>
                /\ DownloadIdOf(rext[r]) # 0
                /\ radv[r] = JobIdOf(DownloadIdOf(rext[r]))
          /\ (Stored(r) /\ DownloadIdOf(rext[r]) = 0) =>
                (handlerRuns[rev[r]] = 0 /\ radv[r] = 0))
  /\ [][\A r \in Requests :
          (ppc[r] = "mark" /\ ppc'[r] = "done") =>
             /\ events'[rev[r]].processed
             /\ events'[rev[r]].correlationId = radv[r]]_vars

\* one run matched a job and its event carries that job's id, another run's
\* payload had no download id and its event is processed with no correlation id
C30_Witness ==
  \E r, q \in Requests :
    /\ ppc[r] = "done" /\ rerr[r] = "" /\ radv[r] # 0
    /\ events[rev[r]].correlationId = JobIdOf(DownloadIdOf(rext[r]))
    /\ ppc[q] = "done" /\ rerr[q] = "" /\ DownloadIdOf(rext[q]) = 0
    /\ events[rev[q]].processed /\ events[rev[q]].correlationId = 0

\* the request arrived while the integration was disabled, or with a secret
\* configured that its header does not carry
Refused(r) == rin[r].seen /\ (~rin[r].enabled \/ ~rin[r].secretOk)

\* C31: a request that arrives while the integration is disabled is answered
\* 202, one that arrives with a configured secret missing or different is
\* answered 401; either ends there with no row stored for it and no processing
\* run started, the step that refuses it leaves the event rows as they were,
\* and every stored row belongs to a request that was let through.
C31_RefusedBeforeStore ==
  /\ [](/\ \A r \in Requests :
             Refused(r) =>
               /\ rresp[r] = (IF ~rin[r].enabled THEN 202 ELSE 401)
               /\ rpc[r] = "end" /\ rev[r] = 0 /\ ppc[r] = "none"
        /\ \A i \in 1..Len(events) :
             \E q \in Requests : rev[q] = i /\ ~Refused(q))
  /\ [][\A r \in Requests :
          (Refused(r)' /\ ~Refused(r)) => (events' = events /\ ppc' = ppc)]_vars

\* one request was ignored as disabled and another refused for its secret
C31_Witness ==
  \E r, q \in Requests :
    /\ Refused(r) /\ rresp[r] = 202
    /\ Refused(q) /\ rin[q].enabled /\ rresp[q] = 401

(* ----------------------- claims: updateBatchStatus ---------------------- *)
\* C15: a call that names a batch id with no row ends at its first lookup: it
\* returns a failure with retries = 0 and has issued no write and taken no
\* sleep, and the stored batch is not touched by it.
C15_MissingBatchFailsAtOnce ==
  \A u \in Updaters :
    /\ (ubid[u] = "missing" /\ upc[u] = "done") =>
         /\ ures[u].kind \in {"notfound", "error"}
         /\ ures[u].retries = 0
         /\ uwrites[u] = 0 /\ usleeps[u] = 0 /\ uapplied[u] = 0
    /\ ubid[u] = "missing" => upc[u] \in {"idle", "read", "done"}
    /\ ures[u].kind = "notfound" => ubid[u] = "missing"

\* a call for a missing batch returned not-found while another call updated
\* the stored batch
C15_Witness ==
  \E u, w \in Updaters :
    ures[u].kind = "notfound" /\ ures[w].kind = "success"

\* C16: a call issues at most maxRetries + 1 conditional writes; it always ends
\* by returning a result value, never by the loop running out or an exception;
\* when all its writes met a version conflict the result is the max-retries
\* failure carrying retries = maxRetries + 1.
C16_BoundedAttempts ==
  \A u \in Updaters :
    /\ uwrites[u] <= umax[u] + 1
    /\ uretries[u] <= uwrites[u]
    /\ ures[u].kind \in {"none", "success", "notfound", "maxretries", "error"}
    /\ (upc[u] = "done") <=> (ures[u].kind # "none")
    /\ ures[u].kind = "maxretries" =>
         /\ ures[u].retries = umax[u] + 1
         /\ uwrites[u] = umax[u] + 1
         /\ usleeps[u] = umax[u]
         /\ uapplied[u] = 0
    /\ (upc[u] = "done" /\ uwrites[u] > 0 /\ uretries[u] = uwrites[u]) =>
         ures[u].kind \in {"maxretries", "error"}

\* a call whose every write met a version conflict used up its budget and
\* returned the max-retries failure with its retry count
C16_Witness ==
  \E u \in Updaters :
    /\ ures[u].kind = "maxretries"
    /\ uwrites[u] = umax[u] + 1 /\ ures[u].retries = uwrites[u]

\* C17: a store error other than a version conflict ends the call at once with
\* a failure carrying the retries counted so far, without counting a retry or
\* sleeping; the retry counter moves only when a conditional write found the
\* version changed; a call that has returned does nothing more.
C17_OtherErrorsSurface ==
  [][\A u \in Updaters :
       /\ (upc[u] # "idle" /\ uretries'[u] # uretries[u]) =>
            /\ upc[u] = "write" /\ batch.version # ucur[u]
            /\ uretries'[u] = uretries[u] + 1
            /\ batch' = batch
       /\ (ures[u].kind = "none" /\ ures'[u].kind = "error") =>
            /\ upc'[u] = "done"
            /\ ures'[u].retries = uretries[u]
            /\ uretries'[u] = uretries[u] /\ usleeps'[u] = usleeps[u]
            /\ batch' = batch
       /\ upc[u] = "done" =>
            /\ upc'[u] = "done" /\ ures'[u] = ures[u]
            /\ uwrites'[u] = uwrites[u] /\ uretries'[u] = uretries[u]]_vars

\* a call that had already retried met another store error and returned it
\* with its retry count
C17_Witness ==
  \E u \in Updaters : ures[u].kind = "error" /\ ures[u].retries > 0

\* C19: with threshold 2, a searchTrack call whose non-retry attempt sees the
\* counter of consecutive empty searches reach the threshold forces exactly
\* one disconnect and then waits exactly one settle delay before it retries;
\* a call whose non-retry attempt does not see that forces none; and the
\* retry attempt, whatever it gets, forces no further disconnect and waits no
\* further delay.
C19_OneForcedReconnect ==
  \A s \in Searches :
    /\ sdelay[s] <= sdisc[s] /\ sdisc[s] <= 1
    /\ spc[s] = "settle" => (sdisc[s] = 1 /\ sdelay[s] = 0 /\ ~sretry[s])
    /\ sretry[s] => (sdisc[s] = 1 /\ sdelay[s] = 1)
    /\ (sdisc[s] = 1) <=> (sseen[s] >= MAX_CONSECUTIVE_EMPTY)
    /\ (spc[s] = "done" /\ sdisc[s] = 1) => sretry[s]

\* two searches in a row came back empty; the second, a non-retry attempt,
\* saw the counter at 2, forced a disconnect, waited and retried; the retry
\* came back empty as well and the call ended with one disconnect, one delay
C19_Witness ==
  \E s, t \in Searches :
    /\ s # t
    /\ spc[t] = "done" /\ sfirst[t] = "empty" /\ ~sretry[t] /\ sdisc[t] = 0
    /\ spc[s] = "done" /\ sfirst[s] = "empty" /\ sseen[s] = MAX_CONSECUTIVE_EMPTY
    /\ sretry[s] /\ sout[s] = "notfound" /\ consecutiveEmptySearches > MAX_CONSECUTIVE_EMPTY
    /\ sdisc[s] = 1 /\ sdelay[s] = 1

\* the peer's key is in the store with a counter at or over the threshold
\* (a key whose TTL has lapsed is no longer in the store)
CounterAtThreshold(u) == failedUsers[u].count >= FAILURE_THRESHOLD /\ failedUsers[u].ttl > 0

\* C20 as stated: isUserBlocked reports a peer blocked exactly while its
\* counter in the store has reached the threshold and its TTL has not lapsed.
C20_BlockedExactlyWhileAtThreshold ==
  \A u \in Peers : bres[u] # "none" => ((bres[u] = "true") <=> CounterAtThreshold(u))

\* C20 amended: when the store answers the read, isUserBlocked reports a peer
\* blocked exactly while its counter in the store has reached the threshold
\* and its TTL has not lapsed, so it reports false again after
\* clearUserFailures and after the TTL has lapsed; when the store call fails
\* it reports false whatever the counter.
C20_BlockedWhileAtThresholdWhenStoreAnswers ==
  \A u \in Peers :
    /\ (bres[u] # "none" /\ ~berr[u]) => ((bres[u] = "true") <=> CounterAtThreshold(u))
    /\ (bres[u] # "none" /\ berr[u]) => bres[u] = "false"

\* a peer at the threshold was cleared and then reported not blocked, was
\* marked up to the threshold again, and after its TTL lapsed it is reported
\* not blocked once more
C20_Witness ==
  \E u \in Peers :
    /\ bfreed[u] = {"cleared", "lapsed"}
    /\ bgone[u] = "lapsed" /\ bres[u] = "false" /\ ~berr[u]
    /\ failedUsers[u] = NoFailures

\* C21: a store error during isUserBlocked makes it answer false ("not
\* blocked"), and a store error during markUserFailed is swallowed; neither
\* method raises to its caller, so the search that called it goes on.
C21_StoreErrorsStayInside ==
  \A u \in Peers :
    /\ bres[u] # "raised" /\ bmark[u] # "raised"
    /\ (bres[u] # "none" /\ berr[u]) => bres[u] = "false"

\* the store failed while a peer at the threshold was checked, and the check
\* answered false; a markUserFailed for the same peer had its error swallowed
C21_Witness ==
  \E u \in Peers :
    /\ CounterAtThreshold(u)
    /\ berr[u] /\ bres[u] = "false"
    /\ bmark[u] = "swallowed"

\* C22: acquire and release never raise; when the store call throws, acquire
\* returns false, the value it returns on contention, and release returns
\* false, the value it returns to a non-owner, and nothing else reaches the
\* caller.
C22_LockNeverRaises ==
  lockLast.op \in {"acquire", "release"} =>
    /\ ~lockLast.raised
    /\ lockLast.result \in BOOLEAN
    /\ lockLast.err => lockLast.result = FALSE

\* an acquire of an absent key met a store error and returned false, as it
\* would have on contention
C22_Witness ==
  /\ lockLast.op = "acquire" /\ lockLast.err
  /\ lockStore[lockLast.key] = Absent
  /\ lockLast.result = FALSE /\ ~lockLast.raised

ReadOps == {"int8", "int32", "int64", "str", "rawHexStr"}

\* bytes left in the buffer when the last read began
Remaining == Len(data) - mlast.at

\* bytes the last read needs: the width of an integer, the size asked of
\* rawHexStr, and for a string the 4-byte prefix plus, when the prefix is all
\* there, the length it declares
Required ==
  IF mlast.op = "int8" THEN 1
  ELSE IF mlast.op = "int32" THEN 4
  ELSE IF mlast.op = "int64" THEN 8
  ELSE IF mlast.op = "rawHexStr" THEN mlast.size
  ELSE IF Remaining < 4 THEN 4
  ELSE 4 + ReadUInt32LE(data, mlast.at)

UnderflowErrors ==
  {"Buffer underflow: cannot read int8", "Buffer underflow: cannot read int32",
   "Buffer underflow: cannot read int64", "Buffer underflow: cannot read string length",
   "Buffer underflow: cannot read string data", "Buffer underflow: cannot read raw hex string"}

\* C18: a read that needs more bytes than remain throws an underflow error and
\* yields no value, whichever read it is (for a string: a truncated prefix, or
\* a declared length beyond what follows the prefix); a read that threw never
\* yields a value.
C18_UnderflowFails ==
  mlast.op \in ReadOps =>
    /\ Required > Remaining => (~mlast.ok /\ mlast.err \in UnderflowErrors)
    /\ ~mlast.ok => mlast.value = NoValue
    /\ mlast.ok => mlast.err = ""

\* an int32 read with 3 bytes remaining, after an earlier read went through,
\* has thrown and left no value
C18_Witness ==
  /\ mlast.op = "int32" /\ Remaining = 3 /\ mlast.at > 0
  /\ ~mlast.ok /\ mlast.value = NoValue

\* the bytes between the offset where the last read began and the pointer
Consumed == Slice(data, mlast.at, pointer)

\* little-endian value of a byte sequence
RECURSIVE LittleEndian(_)
LittleEndian(bs) ==
  IF bs = <<>> THEN 0 ELSE Head(bs) + 256 * LittleEndian(Tail(bs))

\* C33: a read that succeeded began at the pointer the previous operation left
\* and moved it by exactly the width it consumed (1, 4 or 8 bytes for an
\* integer, 4 plus the declared length for a string, the size asked for a raw
\* span); its value is made of exactly the bytes between the two offsets; and
\* no read moves the pointer backwards, so successive reads return
\* consecutive parts of the buffer that do not overlap.
C33_ReadAdvancesByWidth ==
  /\ []((mlast.op \in ReadOps /\ mlast.ok) =>
          /\ pointer = mlast.at + Required
          /\ Len(Consumed) = Required
          /\ mlast.op \in {"int8", "int32"} => mlast.value.v = LittleEndian(Consumed)
          /\ mlast.op = "int64" =>
                /\ mlast.value.v.lo = LittleEndian(SubSeq(Consumed, 1, 4))
                /\ mlast.value.v.hi = LittleEndian(SubSeq(Consumed, 5, 8))
          /\ mlast.op = "str" =>
                mlast.value.v = SubSeq(Consumed, 5, Len(Consumed))
          /\ mlast.op = "rawHexStr" => mlast.value.v = ToHex(Consumed))
  /\ [][/\ mlast'.op \in ReadOps => mlast'.at = pointer
        /\ Constructed => pointer' >= pointer]_vars

\* a string of declared length 2 was read after an earlier read had moved the
\* pointer: the pointer went on by 4 + 2
C33_Witness ==
  /\ mlast.op = "str" /\ mlast.ok /\ mlast.at > 0
  /\ Len(mlast.value.v) = 2
  /\ pointer = mlast.at + 6

\* C34: once the parser is constructed the pointer stays between 0 and the
\* buffer's length after every read, returned or thrown, of a non-negative
\* size; a string read that throws on its payload leaves the pointer just past
\* the length prefix, inside the buffer.
C34_PointerWithinBuffer ==
  Constructed =>
    /\ 0 <= pointer /\ pointer <= Len(data)
    /\ (mlast.op = "str" /\ mlast.err = "Buffer underflow: cannot read string data") =>
         pointer = mlast.at + 4

\* a string read threw on its payload with the pointer past the prefix, at
\* the very end of the buffer
C34_Witness ==
  /\ mlast.op = "str" /\ ~mlast.ok
  /\ mlast.err = "Buffer underflow: cannot read string data"
  /\ pointer = mlast.at + 4 /\ pointer = Len(data)

(* --------------------------- claims: SSE events ------------------------- *)
\* C36: whatever event a response was sent was emitted for the user its token
\* was verified for, so a connection of another user gets no part of it; a
\* request that was refused gets nothing; and once a connection's socket has
\* closed nothing more is written to it, before or after its listener is
\* unsubscribed, and its close handler leaves no listener of it on the bus.
C36_EventsReachOnlyTheirUser ==
  /\ [](\A c \in Conns :
          /\ \A m \in ewritten[c] : m.kind = "event" => (euser[c] # 0 /\ m.user = euser[c])
          /\ epc[c] \in {"idle", "rejected"} => ewritten[c] = {}
          /\ epc[c] = "closed" => (c \notin listeners /\ ~heartbeat[c]))
  /\ [][\A c \in Conns :
          epc[c] \in {"closing", "closed", "dead"} => ewritten'[c] = ewritten[c]]_vars

\* an event emitted for one user reached that user's open connection and not
\* the open connection of another user, and a later event for the same user
\* did not reach the connection once it had closed
C36_Witness ==
  \E c, d \in Conns :
    /\ euser[c] # 0 /\ euser[d] # 0 /\ euser[c] # euser[d]
    /\ epc[c] = "closed" /\ epc[d] = "open"
    /\ EventData(euser[c], 1) \in ewritten[c]
    /\ EventData(euser[c], 1) \notin ewritten[d]
    /\ emitted = 2 /\ EventData(euser[c], 2) \notin ewritten[c]

(* ------------------------- claims: data cleanup ------------------------- *)
\* C37: a row that a cleanup step removes is a download job in status completed
\* or failed whose completedAt lies more than the retention period back, or a
\* webhook event marked processed that was created more than the retention
\* period back; a pending or processing job and an unprocessed event stay
\* stored whatever their age, and rows are removed by the cleanup only.
C37_CleanupDeletesOnlyOldFinishedRows ==
  /\ [](/\ \A r \in JobRows :
            gjobs[r].status \in {"pending", "processing"} => gjobs[r].present
        /\ \A r \in EventRows :
            (gevents[r].stored /\ ~gevents[r].processed) => gevents[r].present)
  /\ [][/\ \A r \in JobRows :
          (gjobs[r].present /\ ~gjobs'[r].present) =>
                /\ gpc = "idle" /\ gpc' = "events"
                /\ gjobs[r].status \in {"completed", "failed"}
                /\ gjobs[r].completedAt # -1
                /\ gnow - gjobs[r].completedAt > RetentionDays
        /\ \A r \in EventRows :
          (gevents[r].present /\ ~gevents'[r].present) =>
                /\ gpc = "events"
                /\ gevents[r].processed
                /\ gnow - gevents[r].createdAt > RetentionDays]_vars

\* a cleanup run removed a completed job past the retention period and kept
\* a pending job created before it and an unprocessed event as old as it
C37_Witness ==
  \E a, b \in JobRows, e \in EventRows :
    /\ gpc = "idle" /\ b < a
    /\ ~gjobs[a].present /\ gjobs[a].status = "completed"
    /\ gjobs[b].present /\ gjobs[b].status = "pending"
    /\ gevents[e].present /\ ~gevents[e].processed
    /\ gevents[e].createdAt <= gjobs[a].completedAt

====
